---- MODULE Spec2Model ----
(***************************************************************************)
(* Order-Block trading bot: the document store, the exchange and the three *)
(* scheduled functions (scanner, entry monitor, position monitor) as one   *)
(* state machine.  Every await of a function is one step, so that runs of  *)
(* different invocations interleave exactly where the code yields.         *)
(*                                                                         *)
(* Units: prices and balances in USD, sizes in lots of sizeIncrement       *)
(* (0.0001 BTC), pnl in USD x 10^-4 (price difference x lots), ages and    *)
(* the cooldown in minutes relative to "now".                              *)
(***************************************************************************)
EXTENDS Integers, Sequences, FiniteSets, TLC

\* ----------------------------------------------------------------- bounds
NumSlots == 2        \* function invocations that may be in flight at once
MaxOBs == 2          \* order_blocks documents
MaxPositions == 3    \* positions documents
MaxOrders == 2       \* entry orders sent to the exchange
MaxStops == 3        \* stop orders accepted by the exchange
TickMinutes == 720   \* wall-clock advance of one Tick
MaxRuns == 2         \* invocations started in one behaviour
MaxCloseLogs == 2    \* CLOSE entries counted per position

\* ------------------------------------------------- configuration defaults
leverage == 2
riskPercentX10 == 10            \* RISK_PER_TRADE 1.0 %
maxAdditions == 1
scaleDownDen == 2               \* SCALE_DOWN_FACTOR 0.5 = 1/2
minProfitForAdditionX10 == 15   \* 1.5 %
maxDeviationForMarketX10 == 8   \* 0.8 %
maxDeviationForLimitX10 == 20   \* 2.0 %
limitPriceAdjustmentX10 == 2    \* 0.2 %
maxOBAgeMinutes == 60
minBalance == 10
minSizeLots == 10               \* minSize 0.001 / sizeIncrement 0.0001
lotsPerUnit == 10000            \* 1 / sizeIncrement
maxDailyLoss == 5
maxConsecutiveLosses == 3
maxAccountDrawdown == 15
cooldownPeriodHours == 24
minReversalOBAgeHours == 8
trailingStopTriggerPercent == 5
trailingStopMultiplierX10 == 25  \* TRAILING_STOP_ATR_MULTIPLIER 2.5

\* --------------------------------------------------------- input domains
Prices == {56000, 60000, 62000}
Balances == {100, 10000, 12000}
FailedBalance == 0   \* what getBalance returns when its request fails

Slots == 1..NumSlots
ObIds == 1..MaxOBs
PosIds == 1..MaxPositions
OrderIds == 1..MaxOrders

NoRec == -1     \* no such document in system_state
NoId == 0       \* undefined / null document or order id
FakeStopId == -1  \* the `SL-${Date.now()}` id made up when the stop order failed

\* Breakouts the detector can report: what findPotentialOrderBlocks returns for
\* the candles of the moment (the candle source is external).
Atrs == {0, 400, 2000}   \* latest ATR document of market_data (0: there is none)
HtfTimeframes == {"1w", "1d"}
entryTimeframe == "4h"

Candidates ==
  { [type |-> "BULLISH", timeframe |-> "4h", bottom |-> 59000, top |-> 59500,
     breakoutPrice |-> 60000, confidence |-> "high"],
    [type |-> "BULLISH", timeframe |-> "4h", bottom |-> 58000, top |-> 58600,
     breakoutPrice |-> 61000, confidence |-> "high"],
    [type |-> "BEARISH", timeframe |-> "4h", bottom |-> 60500, top |-> 61000,
     breakoutPrice |-> 60000, confidence |-> "low"] }

VARIABLES
  obs,          \* order_blocks collection: ObIds -> document
  positions,    \* positions collection: PosIds -> document
  peakRec,      \* system_state "account_peak": NoRec or its value
  cooldownRec,  \* system_state "protection_cooldown": NoRec or minutes until cooldownUntil
  exSize,       \* the exchange's net position (szi), in lots, signed
  exOrders,     \* entry orders on the exchange: OrderIds -> order
  exStops,      \* live stop (trigger) orders on the exchange
  nStops,       \* stop orders accepted so far (the next stop order id - 1)
  postFillFailed, \* history: entry orders whose run hit a store failure after the fill
  postFillReported, \* history: entry orders whose run answered orderExecuted: true
  overlapped,   \* history: an entry run has started while another was in flight
  closeSeq,     \* number of positions closed so far (orders exitTime)
  closeLogs,    \* trade_logs collection: PosIds -> number of its CLOSE entries
  pc,           \* Slots -> where each invocation stands
  loc,          \* Slots -> the invocation's local variables
  started,      \* invocations started so far
  bounded,      \* whether the number of invocations is capped
  overlap,      \* whether the scheduler lets invocations overlap
  avoidWeekends, \* PROTECTION_CONFIG.tradingHours.avoidWeekends
  calc,         \* steps 4 to 6 run on their own: their inputs and what they gave
  scanTimeframes, \* the timeframes scanner deployments are configured for
  det           \* findPotentialOrderBlocks run on its own: its arguments and locals

vars == <<obs, positions, peakRec, cooldownRec, exSize, exOrders, exStops,
          nStops, postFillFailed, postFillReported, overlapped, closeSeq, closeLogs, pc, loc, started, bounded, overlap,
          avoidWeekends, calc, scanTimeframes, det>>

store == <<obs, positions, peakRec, cooldownRec, closeSeq, closeLogs>>
exchange == <<exSize, exOrders, exStops, nStops>>
config == <<bounded, overlap, avoidWeekends, calc, scanTimeframes, det>>
history == <<postFillFailed, postFillReported, overlapped>>

\* ------------------------------------------------------------- documents
NoOB ==
  [exists |-> FALSE, type |-> "", timeframe |-> "", bottom |-> 0, top |-> 0,
   breakoutPrice |-> 0, confidence |-> "", age |-> 0,
   isActive |-> FALSE, isBroken |-> FALSE, isProcessed |-> FALSE,
   processedReason |-> ""]

NoPosition ==
  [status |-> "NONE", side |-> "", avgEntryPrice |-> 0, size |-> 0, stopLoss |-> 0,
   stopLossOrderId |-> NoId, additionCount |-> 0, relatedOB |-> NoId,
   lastOBBottom |-> 0, lastOBTop |-> 0, exitReason |-> "", exitPrice |-> 0,
   pnl |-> 0, exitSeq |-> 0, exitToday |-> FALSE]

NoOrder == [status |-> "none", side |-> "", size |-> 0, px |-> 0, ob |-> NoId]

NoSnapshot == [id |-> NoId, side |-> "", avgEntryPrice |-> 0, size |-> 0, stopLoss |-> 0,
               stopLossOrderId |-> NoId, additionCount |-> 0,
               lastOBBottom |-> 0, lastOBTop |-> 0]

NoLocals ==
  [job |-> "", existingPosition |-> NoSnapshot, docs |-> <<>>, idx |-> 0,
   currentPrice |-> 0, balance |-> 0, currentBalance |-> 0,
   allowed |-> FALSE, reason |-> "", selectedOB |-> NoId, action |-> "",
   side |-> "", stopLoss |-> 0, positionSize |-> 0, orderType |-> "",
   limitPrice |-> 0, pendingDoc |-> NoId, orderId |-> NoId,
   executionPrice |-> 0, executedSize |-> 0, stopLossOrderId |-> NoId,
   exitReason |-> "", unrealizedPnL |-> 0, until |-> 0, docGone |-> FALSE,
   posDocs |-> <<>>, lookupFailed |-> FALSE, timeframe |-> ""]

Snapshot(i) ==
  [id |-> i, side |-> positions[i].side, avgEntryPrice |-> positions[i].avgEntryPrice,
   size |-> positions[i].size, stopLoss |-> positions[i].stopLoss,
   stopLossOrderId |-> positions[i].stopLossOrderId,
   additionCount |-> positions[i].additionCount,
   lastOBBottom |-> positions[i].lastOBBottom, lastOBTop |-> positions[i].lastOBTop]

\* ------------------------------------------------------------- arithmetic
Abs(x) == IF x < 0 THEN -x ELSE x
Max(a, b) == IF a >= b THEN a ELSE b
Min(a, b) == IF a <= b THEN a ELSE b
RECURSIVE Pow(_, _)
Pow(b, n) == IF n = 0 THEN 1 ELSE b * Pow(b, n - 1)

\* the ids of S as a sequence, smallest key first, ties by id
RECURSIVE SortBy(_, _)
SortBy(S, key) ==
  IF S = {} THEN <<>>
  ELSE LET m == CHOOSE x \in S : \A y \in S : key[x] < key[y] \/ (key[x] = key[y] /\ x <= y)
       IN <<m>> \o SortBy(S \ {m}, key)

\* ---------------------------------------------------------------- control
\* base: the locals of all invocations before slot s moves
GotoIn(base, s, p, l) == pc' = [pc EXCEPT ![s] = p] /\ loc' = [base EXCEPT ![s] = l]
ReturnIn(base, s) == GotoIn(base, s, "idle", NoLocals)
Goto(s, p, l) == GotoIn(loc, s, p, l)
Return(s) == ReturnIn(loc, s)

Running(job) == {s \in Slots : pc[s] # "idle" /\ loc[s].job = job}

\* The scheduler starts an invocation in the first free slot; without overlap
\* only when no other invocation is in flight.
Start(s) ==
  /\ pc[s] = "idle"
  /\ \A t \in Slots : t < s => pc[t] # "idle"
  /\ overlap \/ \A t \in Slots : pc[t] = "idle"
  /\ IF bounded
     THEN started < MaxRuns /\ started' = started + 1
     ELSE UNCHANGED started

UsedPositions == {i \in PosIds : positions[i].status # "NONE"}
UsedOrders == {o \in OrderIds : exOrders[o].status # "none"}
UsedOBs == {o \in ObIds : obs[o].exists}
NewId(used, all) == CHOOSE i \in all \ used : \A j \in all \ used : i <= j

\* ------------------------------------------------------------ environment
\* The market price and the account value are inputs: each call that reads one
\* of them (getPrice, getBalance, getKlines, the exchange's order matching) sees
\* any value of Prices or Balances, as they move freely between two calls.
AgeHorizon == Max(maxOBAgeMinutes, minReversalOBAgeHours * 60)

\* TickMinutes of wall-clock time pass: every confirmationTime is that much
\* older and every cooldownUntil that much nearer (ages stop counting once
\* beyond every window the code compares them with).
Tick ==
  /\ obs' = [o \in ObIds |->
       IF obs[o].exists /\ obs[o].age <= AgeHorizon
       THEN [obs[o] EXCEPT !.age = @ + TickMinutes] ELSE obs[o]]
  /\ cooldownRec' = IF cooldownRec > 0 THEN Max(0, cooldownRec - TickMinutes) ELSE cooldownRec
  /\ loc' = [s \in Slots |->
       IF loc[s].until > 0 THEN [loc[s] EXCEPT !.until = Max(0, @ - TickMinutes)] ELSE loc[s]]
  /\ <<obs', cooldownRec', loc'>> # <<obs, cooldownRec, loc>>
  /\ UNCHANGED <<positions, peakRec, closeSeq, closeLogs, exchange, history, pc, started, config>>

\* The UTC date changes: no closed position has its exitTime "today" any more.
Midnight ==
  /\ \E i \in PosIds : positions[i].exitToday
  /\ positions' = [i \in PosIds |-> [positions[i] EXCEPT !.exitToday = FALSE]]
  /\ UNCHANGED <<obs, peakRec, cooldownRec, closeSeq, closeLogs, exchange, history,
                 pc, loc, started, config>>

\* ------------------------------------------------------- entry job: reads
OpenPositions == {i \in PosIds : positions[i].status = "OPEN"}

PosKey == [i \in PosIds |-> i]
ObAgeKey == [o \in ObIds |-> obs[o].age]

\* Variant of EntryListPositions that never finds the OPEN position.
EntryListPositionsBlind(s) ==
  /\ Start(s)
  /\ Goto(s, "e_list_obs", [NoLocals EXCEPT !.job = "entry"])
  /\ overlapped' = (overlapped \/ Running("entry") # {})
  /\ UNCHANGED <<store, exchange, postFillFailed, postFillReported, config>>

\* listDocuments(positions, symbol, status = OPEN, limit 1)
EntryListPositions(s) ==
  /\ Start(s)
  /\ LET found == SortBy(OpenPositions, PosKey)
         l == [NoLocals EXCEPT !.job = "entry",
                 !.existingPosition = IF found = <<>> THEN NoSnapshot ELSE Snapshot(found[1])]
     IN Goto(s, "e_list_obs", l)
  /\ overlapped' = (overlapped \/ Running("entry") # {})
  /\ UNCHANGED <<store, exchange, postFillFailed, postFillReported, config>>

UnprocessedOBs == {o \in ObIds : obs[o].exists /\ obs[o].isActive /\ ~obs[o].isProcessed}

\* listDocuments(order_blocks, isActive, !isProcessed, orderDesc confirmationTime, limit 5)
EntryListOBs(s) ==
  /\ pc[s] = "e_list_obs"
  /\ LET found == SubSeq(SortBy(UnprocessedOBs, ObAgeKey), 1, Min(5, Cardinality(UnprocessedOBs)))
     IN IF found = <<>>
        THEN Return(s)
        ELSE Goto(s, "e_market", [loc[s] EXCEPT !.docs = found, !.idx = 1])
  /\ UNCHANGED <<store, exchange, history, started, config>>

\* checkTradingHours: a pure function of the wall clock, which is an input
WeekendNow == IF avoidWeekends THEN BOOLEAN ELSE {FALSE}

\* hl.getPrice, hl.getBalance, the balance floor, then checkAccountProtection
\* up to its first await (hl.getBalance).  The price and the balance read here
\* are first used once the gate has answered: being free inputs, they are
\* drawn there (GateVerdict), the balance from those that pass the floor.
EntryMarketData(s) ==
  /\ pc[s] = "e_market"
  /\ \E b \in Balances \cup {FailedBalance}, weekend \in WeekendNow :
       IF b < minBalance \/ weekend
       THEN Return(s)
       ELSE Goto(s, "g_balance", loc[s])
  /\ UNCHANGED <<store, exchange, history, started, config>>

\* ------------------------------------------------ AccountProtectionGate
ClosedPositions == {i \in PosIds : positions[i].status = "CLOSED"}

RECURSIVE SumPnl(_)
SumPnl(S) == IF S = {} THEN 0
             ELSE LET i == CHOOSE x \in S : TRUE IN positions[i].pnl + SumPnl(S \ {i})

\* checkDailyLoss: the pnl of the positions closed since the start of the day
DailyPnL == SumPnl({i \in ClosedPositions : positions[i].exitToday})

DailyLossBlocked(currentBalance) ==
  /\ DailyPnL < 0
  /\ Abs(DailyPnL) >= maxDailyLoss * currentBalance * (lotsPerUnit \div 100)

RECURSIVE LeadingLosses(_)
LeadingLosses(q) ==
  IF q = <<>> \/ positions[Head(q)].pnl >= 0 THEN 0 ELSE 1 + LeadingLosses(Tail(q))

ExitKey == [i \in PosIds |-> 0 - positions[i].exitSeq]

\* checkLossStreak: the closed positions, latest exit first, counted while pnl < 0
ConsecutiveLosses ==
  LeadingLosses(SubSeq(SortBy(ClosedPositions, ExitKey), 1, Min(20, Cardinality(ClosedPositions))))

\* checkDrawdown, after the peak record is read (and written)
\* (a peak of 0 makes drawdownPercent NaN, which compares false)
DrawdownBlocked(peak, currentBalance) ==
  /\ peak > 0
  /\ (peak - currentBalance) * 100 >= maxAccountDrawdown * peak

SevereReasons == {"consecutive_losses", "max_drawdown", "daily_loss_limit"}

\* Variant of Blocked in which the run goes on with the rest of the gate and
\* the evaluation.
BlockedGoesOn(s, l, reason) ==
  Goto(s, "g_cd_read", [l EXCEPT !.reason = reason])

\* The entry job after a BLOCK verdict: triggerCooldown for a severe reason
\* (its cooldownUntil is computed before its first await), else return.
Blocked(s, l, reason) ==
  IF reason \in SevereReasons
  THEN Goto(s, "c_list", [NoLocals EXCEPT !.job = "entry", !.reason = reason,
                                          !.until = cooldownPeriodHours * 60])
  ELSE Return(s)

\* hl.getBalance inside checkAccountProtection
GateBalance(s) ==
  /\ pc[s] = "g_balance"
  /\ \E b \in Balances \cup {FailedBalance} :
       Goto(s, "g_daily", [loc[s] EXCEPT !.currentBalance = b])
  /\ UNCHANGED <<store, exchange, history, started, config>>

GateDailyLossSkipped(s) ==
  /\ pc[s] = "g_daily"
  /\ Goto(s, "g_streak", loc[s])
  /\ UNCHANGED <<store, exchange, history, started, config>>

GateDailyLoss(s) ==
  /\ pc[s] = "g_daily"
  /\ IF DailyLossBlocked(loc[s].currentBalance)
     THEN Blocked(s, loc[s], "daily_loss_limit")
     ELSE Goto(s, "g_streak", loc[s])
  /\ UNCHANGED <<store, exchange, history, started, config>>

GateLossStreakOverLimit(s) ==
  /\ pc[s] = "g_streak"
  /\ IF ConsecutiveLosses > maxConsecutiveLosses
     THEN Blocked(s, loc[s], "consecutive_losses")
     ELSE Goto(s, "g_peak_read", loc[s])
  /\ UNCHANGED <<store, exchange, history, started, config>>

GateLossStreak(s) ==
  /\ pc[s] = "g_streak"
  /\ IF ConsecutiveLosses >= maxConsecutiveLosses
     THEN Blocked(s, loc[s], "consecutive_losses")
     ELSE Goto(s, "g_peak_read", loc[s])
  /\ UNCHANGED <<store, exchange, history, started, config>>

\* checkDrawdown: listDocuments(system_state, key = account_peak)
GatePeakRead(s) ==
  /\ pc[s] = "g_peak_read"
  /\ LET b == loc[s].currentBalance
         l == loc[s]
     IN IF peakRec = NoRec THEN Goto(s, "g_peak_create", l)
        ELSE IF b > peakRec THEN Goto(s, "g_peak_update", l)
        ELSE IF DrawdownBlocked(Max(peakRec, b), b) THEN Blocked(s, l, "max_drawdown")
        ELSE Goto(s, "g_cd_read", l)
  /\ UNCHANGED <<store, exchange, history, started, config>>

\* createDocument(account_peak).  A second document made by a racing call is
\* never read: the limit-1 query keeps returning the first.
GatePeakCreate(s) ==
  /\ pc[s] = "g_peak_create"
  /\ peakRec' = IF peakRec = NoRec THEN loc[s].currentBalance ELSE peakRec
  /\ Goto(s, "g_cd_read", loc[s])
  /\ UNCHANGED <<obs, positions, cooldownRec, closeSeq, closeLogs, exchange, history, started, config>>

PeakToWrite(l) == l.currentBalance

\* updateDocument(account_peak, value: currentBalance); peak = currentBalance,
\* so the drawdown is 0
GatePeakUpdate(s) ==
  /\ pc[s] = "g_peak_update"
  /\ peakRec' = PeakToWrite(loc[s])
  /\ Goto(s, "g_cd_read", loc[s])
  /\ UNCHANGED <<obs, positions, cooldownRec, closeSeq, closeLogs, exchange, history, started, config>>

\* ------------------------------------------- entry job: evaluating the OBs
requireHighConfidence == FALSE   \* REQUIRE_HIGH_CONFIDENCE unset

\* Variant of Expired that already expires an OB at the age limit.
ExpiredAtLimit(o) == obs[o].age >= maxOBAgeMinutes

Expired(o) == obs[o].age > maxOBAgeMinutes

AdditionOKSameSideOnly(e, o, currentPrice, balance) ==
  \/ e.side = "LONG" /\ obs[o].type = "BULLISH"
  \/ e.side = "SHORT" /\ obs[o].type = "BEARISH"

\* the addition test against the position read at the start of the run
AdditionOK(e, o, currentPrice, balance) ==
  LET ob == obs[o]
      isSameDirection == \/ e.side = "LONG" /\ ob.type = "BULLISH"
                         \/ e.side = "SHORT" /\ ob.type = "BEARISH"
      unrealizedPnL == IF e.side = "LONG" THEN (currentPrice - e.avgEntryPrice) * e.size
                       ELSE (e.avgEntryPrice - currentPrice) * e.size
      \* lastOBTop || Infinity: a missing top compares as +infinity
      significantlyBetter ==
        \/ e.side = "LONG" /\ ob.bottom * 100 > e.lastOBBottom * 102
        \/ e.side = "SHORT" /\ (e.lastOBTop = 0 \/ ob.top * 100 < e.lastOBTop * 98)
      obDistanceUnder5 ==
        IF e.side = "LONG"
        THEN e.lastOBBottom > 0 /\ Abs(ob.bottom - e.lastOBBottom) * 100 < 5 * e.lastOBBottom
        ELSE e.lastOBTop > 0 /\ Abs(ob.top - e.lastOBTop) * 100 < 5 * e.lastOBTop
      withinRangeAndConfident == obDistanceUnder5 /\ ob.confidence = "high"
  IN /\ isSameDirection
     /\ e.additionCount < maxAdditions
     /\ unrealizedPnL * 10 >= minProfitForAdditionX10 * balance * (lotsPerUnit \div 100)
     /\ significantlyBetter \/ withinRangeAndConfident

Eligible(l, o) ==
  /\ ~(requireHighConfidence /\ obs[o].confidence # "high")
  /\ l.existingPosition.id # NoId => AdditionOK(l.existingPosition, o, l.currentPrice, l.balance)

\* the first document from l.idx on that the loop acts on (0: none)
RECURSIVE FirstHit(_, _)
FirstHit(l, j) ==
  IF j > Len(l.docs) THEN 0
  ELSE IF Expired(l.docs[j]) \/ Eligible(l, l.docs[j]) THEN j
  ELSE FirstHit(l, j + 1)

getBreakoutEdge(ob) == IF ob.type = "BULLISH" THEN ob.top ELSE ob.bottom

getBreakoutPrice(ob) ==
  IF ob.breakoutPrice > 0 THEN ob.breakoutPrice
  ELSE IF ob.type = "BULLISH" THEN ob.top ELSE ob.bottom

StopLossFor(ob, side) == IF side = "LONG" THEN ob.bottom ELSE ob.top

\* The sizes are IEEE doubles. Where riskAmount / riskDistance / sizeIncrement is
\* a whole number, the double quotient can come out just below it (120 / 1600 /
\* 0.0001 = 749.9999999999999), and Math.floor then drops a whole increment.
\* Over the balances and distances of this model that happens for exactly
\* these inputs; every other quotient floors as the exact one does.
QuotientFallsShort(balance, riskDistance, additionNumber) ==
  /\ balance = 12000
  /\ riskDistance \in {100, 200, 400, 800, 1600, 3200}
  /\ (balance * riskPercentX10 * lotsPerUnit)
        % (1000 * riskDistance * Pow(scaleDownDen, additionNumber)) = 0

\* the quotient floored as the real number it stands for
ExactFloor(balance, riskDistance, additionNumber) ==
  (balance * riskPercentX10 * lotsPerUnit)
     \div (1000 * riskDistance * Pow(scaleDownDen, additionNumber))

\* riskAmount / riskDistance floored to the size increment, in lots
PositionSize(balance, riskDistance, additionNumber) ==
  ExactFloor(balance, riskDistance, additionNumber)
    - (IF QuotientFallsShort(balance, riskDistance, additionNumber) THEN 1 ELSE 0)

LimitPrice(ob, side, currentPrice) ==
  LET raw == IF side = "LONG" THEN (currentPrice * (1000 - limitPriceAdjustmentX10)) \div 1000
             ELSE (currentPrice * (1000 + limitPriceAdjustmentX10)) \div 1000
  IN IF side = "LONG" /\ raw < ob.bottom THEN (ob.bottom * 1001) \div 1000
     ELSE IF side = "SHORT" /\ raw > ob.top THEN (ob.top * 999) \div 1000
     ELSE raw

\* Variant of AfterPlan that creates a PENDING document for an addition too.
AfterPlanAlwaysPending(action) == "e_pending"

\* step 6 begins by creating the PENDING document, for action OPEN only
AfterPlan(action) == IF action = "OPEN" THEN "e_pending" ELSE "e_order"

\* Steps 5 and 6 as a function of what the run has read: the side, the stop,
\* the size in lots, and the route taken ("margin": Insufficient margin, which
\* is also where a risk distance of 0 ends, its size being Infinity;
\* "too_small"; "market"; "limit"; "skip": skipped_large_deviation).
Decision(e, ob, currentPrice, balance) ==
  LET action == IF e.id # NoId THEN "ADD" ELSE "OPEN"
      side == IF ob.type = "BULLISH" THEN "LONG" ELSE "SHORT"
      stopLoss == StopLossFor(ob, side)
      riskDistance == Abs(currentPrice - stopLoss)
      additionNumber == IF action = "ADD" THEN e.additionCount + 1 ELSE 0
      size == IF riskDistance = 0 THEN 0
              ELSE PositionSize(balance, riskDistance, additionNumber)
      breakoutPrice == getBreakoutPrice(ob)
      deviationX1000 == Abs(currentPrice - breakoutPrice) * 1000
      route == IF riskDistance = 0 THEN "margin"
               ELSE IF size < minSizeLots THEN "too_small"
               ELSE IF size * currentPrice > balance * 95 * (lotsPerUnit \div 100) * leverage
                 THEN "margin"
               ELSE IF deviationX1000 <= maxDeviationForMarketX10 * breakoutPrice THEN "market"
               ELSE IF deviationX1000 <= maxDeviationForLimitX10 * breakoutPrice THEN "limit"
               ELSE "skip"
  IN [route |-> route, action |-> action, side |-> side, stopLoss |-> stopLoss,
      size |-> size,
      limitPrice |-> IF route = "limit" THEN LimitPrice(ob, side, currentPrice)
                     ELSE currentPrice]

\* Steps 5 and 6 for the selected OB, up to the next await.
Plan(base, s, l, o) ==
  LET d == Decision(l.existingPosition, obs[o], l.currentPrice, l.balance)
      \* (the locals no later statement reads are dropped here)
      l1 == [l EXCEPT !.selectedOB = o, !.action = d.action, !.side = d.side,
                      !.stopLoss = d.stopLoss, !.positionSize = d.size,
                      !.currentPrice = 0, !.balance = 0, !.currentBalance = 0,
                      !.docs = <<>>, !.idx = 0]
  IN IF d.route = "too_small" THEN GotoIn(base, s, "e_small", l1)
     ELSE IF d.route \in {"market", "limit"}
       THEN GotoIn(base, s, AfterPlan(d.action),
                   [l1 EXCEPT !.orderType = d.route, !.limitPrice = d.limitPrice])
     ELSE ReturnIn(base, s)            \* Insufficient margin, skipped_large_deviation

\* The for-loop of step 4 from l.idx to its next await.
Evaluate(base, s, l) ==
  LET j == FirstHit(l, l.idx)
  IN IF j = 0 THEN ReturnIn(base, s)
     ELSE IF Expired(l.docs[j]) THEN GotoIn(base, s, "e_expire", [l EXCEPT !.idx = j])
     ELSE Plan(base, s, [l EXCEPT !.idx = j], l.docs[j])

\* The entry job once the gate's verdict is known.
GateVerdict(base, s, l, allowed) ==
  IF allowed
  THEN \E price \in Prices, b \in {x \in Balances : x >= minBalance} :
         Evaluate(base, s, [l EXCEPT !.allowed = TRUE, !.currentBalance = 0,
                                     !.currentPrice = price, !.balance = b])
  ELSE ReturnIn(base, s)

\* checkCooldownPeriod: listDocuments(system_state, key = protection_cooldown)
GateCooldownRead(s) ==
  /\ pc[s] = "g_cd_read"
  /\ IF cooldownRec = NoRec THEN GateVerdict(loc, s, loc[s], TRUE)
     ELSE IF cooldownRec > 0 THEN GateVerdict(loc, s, loc[s], FALSE)
     ELSE Goto(s, "g_cd_delete", [loc[s] EXCEPT !.docGone = FALSE])
  /\ UNCHANGED <<store, exchange, history, started, config>>

HoldsCooldownDoc == {"g_cd_delete", "c_update"}

\* deleteDocument of the expired cooldown record; a record another run has
\* deleted meanwhile makes the call throw (protection_error)
GateCooldownDelete(s) ==
  /\ pc[s] = "g_cd_delete"
  /\ IF loc[s].docGone
     THEN Return(s) /\ UNCHANGED cooldownRec
     ELSE /\ cooldownRec' = NoRec
          /\ LET others == [t \in Slots |->
                   IF t # s /\ pc[t] \in HoldsCooldownDoc
                   THEN [loc[t] EXCEPT !.docGone = TRUE] ELSE loc[t]]
             IN GateVerdict(others, s, loc[s], TRUE)
  /\ UNCHANGED <<obs, positions, peakRec, closeSeq, closeLogs, exchange, history, started, config>>

\* ---------------------------------------------------------- triggerCooldown
\* (a second record created by a racing run is not kept apart from the first:
\* the listing returns one record per key)
CooldownList(s) ==
  /\ pc[s] = "c_list"
  /\ IF cooldownRec # NoRec
     THEN Goto(s, "c_update", [loc[s] EXCEPT !.docGone = FALSE])
     ELSE Goto(s, "c_create", loc[s])
  /\ UNCHANGED <<store, exchange, history, started, config>>

\* updateDocument(existing.$id, value: cooldownUntil); throws when the gate of
\* another run has deleted that document meanwhile
CooldownUpdate(s) ==
  /\ pc[s] = "c_update"
  /\ cooldownRec' = IF loc[s].docGone THEN cooldownRec ELSE loc[s].until
  /\ Return(s)
  /\ UNCHANGED <<obs, positions, peakRec, closeSeq, closeLogs, exchange, history, started, config>>

CooldownCreate(s) ==
  /\ pc[s] = "c_create"
  /\ cooldownRec' = loc[s].until
  /\ Return(s)
  /\ UNCHANGED <<obs, positions, peakRec, closeSeq, closeLogs, exchange, history, started, config>>

\* ------------------------------------------------- entry job: store writes
MarkProcessed(o, reason) ==
  obs' = [obs EXCEPT ![o].isProcessed = TRUE, ![o].processedReason = reason]

\* the expired OB is written off and the loop goes on with the next document
EntryExpire(s) ==
  /\ pc[s] = "e_expire"
  /\ MarkProcessed(loc[s].docs[loc[s].idx], "expired_max_age")
  /\ Evaluate(loc, s, [loc[s] EXCEPT !.idx = @ + 1])
  /\ UNCHANGED <<positions, peakRec, cooldownRec, closeSeq, closeLogs, exchange,
                 history, started, config>>

EntryTooSmallUnmarked(s) ==
  /\ pc[s] = "e_small"
  /\ Return(s)
  /\ UNCHANGED <<store, exchange, history, started, config>>

EntryTooSmall(s) ==
  /\ pc[s] = "e_small"
  /\ MarkProcessed(loc[s].selectedOB, "size_too_small")
  /\ Return(s)
  /\ UNCHANGED <<positions, peakRec, cooldownRec, closeSeq, closeLogs, exchange,
                 history, started, config>>

PendingPosition(l) ==
  [NoPosition EXCEPT !.status = "PENDING", !.side = l.side,
     !.avgEntryPrice = l.limitPrice, !.size = l.positionSize, !.stopLoss = l.stopLoss,
     !.relatedOB = l.selectedOB, !.lastOBBottom = obs[l.selectedOB].bottom,
     !.lastOBTop = obs[l.selectedOB].top]

\* createDocument(positions, status PENDING), action OPEN only
EntryCreatePending(s) ==
  /\ pc[s] = "e_pending"
  /\ UsedPositions # PosIds
  /\ LET i == NewId(UsedPositions, PosIds)
     IN /\ positions' = [positions EXCEPT ![i] = PendingPosition(loc[s])]
        /\ Goto(s, "e_order", [loc[s] EXCEPT !.pendingDoc = i])
  /\ UNCHANGED <<obs, peakRec, cooldownRec, closeSeq, closeLogs, exchange,
                 history, started, config>>

EntryMarkFailed(s) ==
  /\ pc[s] = "e_failed"
  /\ positions' = [positions EXCEPT ![loc[s].pendingDoc].status = "FAILED"]
  /\ Return(s)
  /\ UNCHANGED <<obs, peakRec, cooldownRec, closeSeq, closeLogs, exchange,
                 history, started, config>>

EntryMarkCancelled(s) ==
  /\ pc[s] = "e_cancelled"
  /\ positions' = [positions EXCEPT ![loc[s].pendingDoc].status = "CANCELLED"]
  /\ Return(s)
  /\ UNCHANGED <<obs, peakRec, cooldownRec, closeSeq, closeLogs, exchange,
                 history, started, config>>

\* step 7, first write: the Position
PositionAfterFill(l) ==
  IF l.action = "OPEN"
  THEN [positions[l.pendingDoc] EXCEPT
          !.status = "OPEN", !.avgEntryPrice = l.executionPrice,
          !.size = l.executedSize, !.stopLossOrderId = l.stopLossOrderId]
  ELSE LET e == l.existingPosition
           totalCost == e.avgEntryPrice * e.size + l.executionPrice * l.executedSize
           totalSize == e.size + l.executedSize
       IN [positions[e.id] EXCEPT
             !.size = totalSize, !.avgEntryPrice = totalCost \div totalSize,
             !.stopLoss = l.stopLoss, !.additionCount = e.additionCount + 1,
             !.lastOBBottom = obs[l.selectedOB].bottom,
             !.lastOBTop = obs[l.selectedOB].top]

WrittenPosition(l) == IF l.action = "OPEN" THEN l.pendingDoc ELSE l.existingPosition.id

EntryUpdatePosition(s) ==
  /\ pc[s] = "e_db_pos"
  /\ positions' = [positions EXCEPT ![WrittenPosition(loc[s])] = PositionAfterFill(loc[s])]
  /\ Goto(s, "e_db_ob", loc[s])
  /\ UNCHANGED <<obs, peakRec, cooldownRec, closeSeq, closeLogs, exchange,
                 history, started, config>>

\* step 7, second write: the OB
EntryUpdateOB(s) ==
  /\ pc[s] = "e_db_ob"
  /\ MarkProcessed(loc[s].selectedOB,
                   IF loc[s].action = "OPEN" THEN "position_opened" ELSE "position_added")
  /\ Goto(s, "e_log", loc[s])
  /\ UNCHANGED <<positions, peakRec, cooldownRec, closeSeq, closeLogs, exchange,
                 history, started, config>>

\* The call of logTradeEvent, still inside the try of step 7: its argument
\* reads obAgeMinutes, a const of the body of the for loop of step 4, outside
\* that loop. The ReferenceError is caught by catch (dbErr), which sends the
\* emergency alert and answers success: false, orderExecuted: true; the
\* position_opened / position_added answer is never reached.
EntryLog(s) ==
  /\ pc[s] = "e_log"
  /\ postFillReported' = postFillReported \cup {loc[s].orderId}
  /\ Return(s)
  /\ UNCHANGED <<store, exchange, postFillFailed, overlapped, started, config>>

\* ------------------------------------------------------------- the exchange
Signed(side, size) == IF side = "LONG" THEN size ELSE -size

\* a buy at limit px executes when the market is at or below px (the fill is
\* taken at px itself: price improvement is left out)
Marketable(side, px, price) == IF side = "LONG" THEN price <= px ELSE price >= px

\* a reduce-only order never grows or flips the position
ReduceOnly(side, size) ==
  IF side = "LONG" THEN (IF exSize > 0 THEN exSize - Min(size, exSize) ELSE exSize)
  ELSE (IF exSize < 0 THEN exSize + Min(size, -exSize) ELSE exSize)

StopOrder(id, side, size, px) == [id |-> id, side |-> side, size |-> size, px |-> px]

\* a resting entry order is executed at its limit price; no stop order comes with it
ExchangeFill ==
  /\ \E o \in OrderIds, price \in Prices :
       /\ exOrders[o].status = "resting"
       /\ Marketable(exOrders[o].side, exOrders[o].px, price)
       /\ exOrders' = [exOrders EXCEPT ![o].status = "filled"]
       /\ exSize' = exSize + Signed(exOrders[o].side, exOrders[o].size)
  /\ UNCHANGED <<store, exStops, nStops, history, pc, loc, started, config>>

StopTriggered(st, price) == IF st.side = "LONG" THEN price <= st.px ELSE price >= st.px

\* a stop order fires: reduce-only market order for its own size
ExchangeStop ==
  /\ \E st \in exStops, price \in Prices :
       /\ StopTriggered(st, price)
       /\ exStops' = exStops \ {st}
       /\ exSize' = ReduceOnly(st.side, st.size)
  /\ UNCHANGED <<store, exOrders, nStops, history, pc, loc, started, config>>

\* ------------------------------------------------ entry job: order handling
\* only the market route writes FAILED; after a limit order that was not
\* placed the run returns its error with the record as it is
OrderFailed(s) ==
  IF loc[s].pendingDoc # NoId /\ loc[s].orderType = "market"
  THEN Goto(s, "e_failed", loc[s]) ELSE Return(s)

\* hl.placeOrderWithStopLoss: the entry order and, when it is filled at once,
\* the stop order (whose result is not looked at) in one exchange round
EntryPlaceOrder(s) ==
  LET l == loc[s] IN
  /\ pc[s] = "e_order"
  /\ \/ /\ OrderFailed(s)                      \* rejected, or IoC without a fill
        /\ UNCHANGED exchange
     \/ /\ UsedOrders # OrderIds
        /\ LET o == NewId(UsedOrders, OrderIds)
               ord == [status |-> "resting", side |-> l.side, size |-> l.positionSize,
                       px |-> l.limitPrice, ob |-> l.selectedOB]
           IN \E price \in Prices :
              IF Marketable(l.side, l.limitPrice, price)
              THEN /\ exOrders' = [exOrders EXCEPT ![o] = [ord EXCEPT !.status = "filled"]]
                   /\ exSize' = exSize + Signed(l.side, l.positionSize)
                   /\ \E stopOk \in BOOLEAN :
                        IF stopOk /\ nStops < MaxStops
                        THEN /\ nStops' = nStops + 1
                             /\ exStops' = exStops \cup
                                  {StopOrder(nStops + 1, l.side, l.positionSize, l.stopLoss)}
                             /\ Goto(s, "e_db_pos",
                                  [l EXCEPT !.orderId = o, !.executionPrice = l.limitPrice,
                                            !.executedSize = l.positionSize,
                                            !.stopLossOrderId = nStops + 1])
                        ELSE /\ UNCHANGED <<nStops, exStops>>
                             /\ Goto(s, "e_db_pos",
                                  [l EXCEPT !.orderId = o, !.executionPrice = l.limitPrice,
                                            !.executedSize = l.positionSize,
                                            !.stopLossOrderId = FakeStopId])
              ELSE /\ l.orderType = "limit"
                   /\ exOrders' = [exOrders EXCEPT ![o] = ord]
                   /\ UNCHANGED <<exSize, exStops, nStops>>
                   /\ Goto(s, "e_wait", [l EXCEPT !.orderId = o])
  /\ UNCHANGED <<store, history, started, config>>

\* waitForOrderFill: the poll that ends the wait (filled, cancelled, or timeout)
EntryWait(s) ==
  LET l == loc[s]
      o == exOrders[l.orderId] IN
  /\ pc[s] = "e_wait"
  /\ IF o.status = "filled"
     THEN Goto(s, "e_db_pos", [l EXCEPT !.executionPrice = o.px, !.executedSize = o.size,
                                        !.stopLossOrderId = NoId])
     ELSE Goto(s, "e_cancel", l)
  /\ UNCHANGED <<store, exchange, history, started, config>>

\* hl.cancelOrder, its result ignored
EntryCancel(s) ==
  LET l == loc[s] IN
  /\ pc[s] = "e_cancel"
  /\ \E ok \in BOOLEAN :
       exOrders' = IF ok /\ exOrders[l.orderId].status = "resting"
                   THEN [exOrders EXCEPT ![l.orderId].status = "cancelled"]
                   ELSE exOrders
  /\ IF l.pendingDoc # NoId THEN Goto(s, "e_cancelled", l) ELSE Return(s)
  /\ UNCHANGED <<store, exSize, exStops, nStops, history, started, config>>

\* ------------------------------------------------------------ failing calls
PostFillPcs == {"e_db_pos", "e_db_ob"}

\* pcs whose pending store call ends the invocation when it throws
ThrowingPcs ==
  {"e_list_obs", "e_expire", "e_small", "e_pending", "e_failed", "e_cancelled",
   "g_daily", "g_streak", "g_peak_read", "g_peak_create", "g_peak_update",
   "g_cd_read", "g_cd_delete", "c_list", "c_update", "c_create",
   "m_price", "m_close_doc", "m_htf", "m_reversal", "m_atr", "m_trail_doc", "m_update",
   "s_active", "s_break"} \cup PostFillPcs

\* The pending Appwrite call throws (after its retries, where it has any): the
\* invocation ends in its catch block without a further write; the catch of
\* step 7 answers success: false, orderExecuted: true.
Throw(s) ==
  /\ pc[s] \in ThrowingPcs
  /\ postFillFailed' = IF pc[s] \in PostFillPcs
                       THEN postFillFailed \cup {loc[s].orderId} ELSE postFillFailed
  /\ postFillReported' = IF pc[s] \in PostFillPcs
                         THEN postFillReported \cup {loc[s].orderId} ELSE postFillReported
  /\ Return(s)
  /\ UNCHANGED <<store, exchange, overlapped, started, config>>

\* -------------------------------------------------------- position monitor
RECURSIVE Snapshots(_)
Snapshots(ids) == IF ids = <<>> THEN <<>> ELSE <<Snapshot(Head(ids))>> \o Snapshots(Tail(ids))

PosDoc(l) == l.posDocs[l.idx]

\* the loop goes on with the next position document
MonitorNext(s, l) ==
  IF l.idx + 1 > Len(l.posDocs) THEN Return(s)
  ELSE Goto(s, "m_live", [l EXCEPT !.idx = @ + 1, !.exitReason = "", !.executionPrice = 0,
                                   !.unrealizedPnL = 0, !.stopLoss = 0,
                                   !.stopLossOrderId = NoId])

\* listDocuments(positions, symbol, status = OPEN, limit 10)
MonitorListClosedToo(s) ==
  /\ Start(s)
  /\ LET found == SortBy({i \in PosIds : positions[i].status \in {"OPEN", "CLOSED"}}, PosKey)
     IN IF found = <<>> THEN Return(s)
        ELSE Goto(s, "m_price", [NoLocals EXCEPT !.job = "monitor",
                                                 !.posDocs = Snapshots(found)])
  /\ UNCHANGED <<store, exchange, history, config>>

MonitorList(s) ==
  /\ Start(s)
  /\ LET found == SortBy(OpenPositions, PosKey)
     IN IF found = <<>> THEN Return(s)
        ELSE Goto(s, "m_price", [NoLocals EXCEPT !.job = "monitor",
                                                 !.posDocs = Snapshots(found)])
  /\ UNCHANGED <<store, exchange, history, config>>

MonitorPrice(s) ==
  /\ pc[s] = "m_price"
  /\ \E price \in Prices : Goto(s, "m_live", [loc[s] EXCEPT !.currentPrice = price, !.idx = 1])
  /\ UNCHANGED <<store, exchange, history, started, config>>

PnLAsLong(side, avg, size, px) == (px - avg) * size

PnL(side, avg, size, px) == IF side = "LONG" THEN (px - avg) * size ELSE (avg - px) * size

\* hl.getPosition (null on any error): no live position means "stopped out"
MonitorLive(s) ==
  LET l == loc[s]
      d == PosDoc(l) IN
  /\ pc[s] = "m_live"
  /\ \E lookupFailed \in BOOLEAN :
       IF lookupFailed \/ exSize = 0
       THEN Goto(s, "m_close_doc",
                 [l EXCEPT !.exitReason = "STOP_LOSS_TRIGGERED",
                           !.lookupFailed = lookupFailed,
                           !.executionPrice = d.stopLoss,
                           !.unrealizedPnL = PnL(d.side, d.avgEntryPrice, d.size, d.stopLoss)])
       ELSE Goto(s, "m_htf",
                 [l EXCEPT !.unrealizedPnL = PnL(d.side, d.avgEntryPrice, d.size,
                                                 l.currentPrice)])
  /\ UNCHANGED <<store, exchange, history, started, config>>

\* updateDocument(status CLOSED, exitTime, exitReason, exitPrice, pnl)
MonitorCloseDoc(s) ==
  LET l == loc[s] IN
  /\ pc[s] = "m_close_doc"
  /\ positions' = [positions EXCEPT ![PosDoc(l).id] =
         [@ EXCEPT !.status = "CLOSED", !.exitReason = l.exitReason,
                   !.exitPrice = l.executionPrice, !.pnl = l.unrealizedPnL,
                   !.exitSeq = closeSeq + 1, !.exitToday = TRUE]]
  /\ closeSeq' = closeSeq + 1
  /\ Goto(s, "m_log", [l EXCEPT !.lookupFailed = FALSE])
  /\ UNCHANGED <<obs, peakRec, cooldownRec, closeLogs, exchange,
                 history, started, config>>

\* logTradeEvent(CLOSE), which swallows a failed createDocument, and the
\* close e-mail
MonitorLog(s) ==
  /\ pc[s] = "m_log"
  /\ \/ closeLogs' = [closeLogs EXCEPT ![PosDoc(loc[s]).id] = Min(@ + 1, MaxCloseLogs)]
     \/ UNCHANGED closeLogs                   \* 'Log failed'
  /\ MonitorNext(s, loc[s])
  /\ UNCHANGED <<obs, positions, peakRec, cooldownRec, closeSeq, exchange, history,
                 started, config>>

ActiveOBs(timeframes) ==
  {o \in ObIds : obs[o].exists /\ obs[o].isActive /\ obs[o].timeframe \in timeframes}

IsTarget(d, o, currentPrice) ==
  \/ d.side = "LONG" /\ obs[o].type = "BEARISH" /\ currentPrice >= obs[o].bottom
  \/ d.side = "SHORT" /\ obs[o].type = "BULLISH" /\ currentPrice <= obs[o].top

\* the higher-timeframe listings; the first target found is closed on
MonitorHTF(s) ==
  LET l == loc[s] IN
  /\ pc[s] = "m_htf"
  /\ IF \E o \in ActiveOBs(HtfTimeframes) : IsTarget(PosDoc(l), o, l.currentPrice)
     THEN Goto(s, "m_close", [l EXCEPT !.exitReason = "HTF_TARGET"])
     ELSE Goto(s, "m_reversal", l)
  /\ UNCHANGED <<store, exchange, history, started, config>>

IsReversal(d, o, currentPrice) ==
  /\ \/ d.side = "LONG" /\ obs[o].type = "BEARISH"
     \/ d.side = "SHORT" /\ obs[o].type = "BULLISH"
  /\ obs[o].age <= minReversalOBAgeHours * 60
  /\ obs[o].confidence = "high"
  /\ \/ d.side = "LONG" /\ currentPrice < obs[o].top
     \/ d.side = "SHORT" /\ currentPrice > obs[o].bottom

\* unrealizedPnLPercent > trailingStopTriggerPercent, against the position value
TrailingDue(l) ==
  l.unrealizedPnL * 100 > trailingStopTriggerPercent * PosDoc(l).avgEntryPrice * PosDoc(l).size

AfterReversal(s, l) ==
  IF TrailingDue(l) THEN Goto(s, "m_atr", l) ELSE Goto(s, "m_update", l)

\* listDocuments(order_blocks, entry timeframe, isActive, newest first, limit 5)
MonitorReversal(s) ==
  LET l == loc[s]
      listed == SubSeq(SortBy(ActiveOBs({entryTimeframe}), ObAgeKey), 1,
                       Min(5, Cardinality(ActiveOBs({entryTimeframe})))) IN
  /\ pc[s] = "m_reversal"
  /\ IF \E j \in 1..Len(listed) : IsReversal(PosDoc(l), listed[j], l.currentPrice)
     THEN Goto(s, "m_close", [l EXCEPT !.exitReason = "REVERSAL_OB"])
     ELSE AfterReversal(s, l)
  /\ UNCHANGED <<store, exchange, history, started, config>>

\* the same with closeResult.success not looked at
MonitorCloseUnchecked(s) ==
  LET l == loc[s]
      liveSide == IF exSize > 0 THEN "LONG" ELSE "SHORT" IN
  /\ pc[s] = "m_close"
  /\ \/ \E price \in Prices :
          /\ exSize # 0
          /\ IF liveSide = "LONG" THEN price >= l.currentPrice ELSE price <= l.currentPrice
          /\ exSize' = ReduceOnly(liveSide, PosDoc(l).size)
     \/ UNCHANGED exSize
  /\ Goto(s, "m_close_doc", [l EXCEPT !.executionPrice = l.currentPrice])
  /\ UNCHANGED <<store, exOrders, exStops, nStops, history, started, config>>

\* hl.closePosition: reduce-only IoC order at currentPrice for posDoc.size,
\* on the side opposite to the live position. After a failed close the loop
\* goes on with the check that follows the one that asked for it (the
\* emergency close is the last check: its reason stays as the mark that it
\* has been made).
MonitorClose(s) ==
  LET l == loc[s]
      liveSide == IF exSize > 0 THEN "LONG" ELSE "SHORT" IN
  /\ pc[s] = "m_close"
  /\ \/ \E price \in Prices :
          /\ exSize # 0
          /\ IF liveSide = "LONG" THEN price >= l.currentPrice ELSE price <= l.currentPrice
          /\ exSize' = ReduceOnly(liveSide, PosDoc(l).size)
          /\ Goto(s, "m_close_doc", [l EXCEPT !.executionPrice = l.currentPrice])
     \/ /\ UNCHANGED exSize                   \* no live position, no fill, or an error
        /\ IF l.exitReason = "HTF_TARGET" THEN Goto(s, "m_reversal", [l EXCEPT !.exitReason = ""])
           ELSE IF l.exitReason = "EMERGENCY_CLOSE" THEN Goto(s, "m_update", l)
           ELSE AfterReversal(s, [l EXCEPT !.exitReason = ""])
  /\ UNCHANGED <<store, exOrders, exStops, nStops, history, started, config>>

\* the liquidation check of the monitor that has one, made before the status
\* update: distanceToLiq < 2 (the liquidation price is the exchange's and is
\* not followed here, so any price may be that near to it)
MonitorEmergency(s) ==
  /\ pc[s] = "m_update" /\ loc[s].exitReason = ""
  /\ Goto(s, "m_close", [loc[s] EXCEPT !.exitReason = "EMERGENCY_CLOSE"])
  /\ UNCHANGED <<store, exchange, history, started, config>>

NewStopLoss(d, currentPrice, atr) ==
  IF d.side = "LONG" THEN currentPrice - (atr * trailingStopMultiplierX10) \div 10
  ELSE currentPrice + (atr * trailingStopMultiplierX10) \div 10

shouldUpdateOrEqual(d, newStopLoss) ==
  IF d.side = "LONG" THEN newStopLoss >= d.stopLoss ELSE newStopLoss <= d.stopLoss

shouldUpdate(d, newStopLoss) ==
  IF d.side = "LONG" THEN newStopLoss > d.stopLoss ELSE newStopLoss < d.stopLoss

\* listDocuments(market_data, indicator ATR, newest, limit 1)
MonitorATR(s) ==
  LET l == loc[s] IN
  /\ pc[s] = "m_atr"
  /\ \E atr \in Atrs :
       LET newStopLoss == NewStopLoss(PosDoc(l), l.currentPrice, atr)
       IN IF atr # 0 /\ shouldUpdate(PosDoc(l), newStopLoss)
          THEN Goto(s, "m_trail", [l EXCEPT !.stopLoss = newStopLoss])
          ELSE Goto(s, "m_update", l)
  /\ UNCHANGED <<store, exchange, history, started, config>>

\* hl.updateStopLoss: cancel the stored stop order id, then place a new stop
\* for the whole live position
MonitorTrail(s) ==
  LET l == loc[s]
      kept == {st \in exStops : st.id # PosDoc(l).stopLossOrderId}
      liveSide == IF exSize > 0 THEN "LONG" ELSE "SHORT" IN
  /\ pc[s] = "m_trail"
  /\ \/ /\ exSize # 0 /\ nStops < MaxStops
        /\ nStops' = nStops + 1
        /\ exStops' = kept \cup {StopOrder(nStops + 1, liveSide, Abs(exSize), l.stopLoss)}
        /\ Goto(s, "m_trail_doc", [l EXCEPT !.stopLossOrderId = nStops + 1])
     \/ /\ exStops' = kept                    \* no live position, or the new order fails
        /\ UNCHANGED nStops
        /\ Goto(s, "m_update", l)
  /\ UNCHANGED <<store, exSize, exOrders, history, started, config>>

\* updateDocument(stopLoss, stopLossOrderId)
MonitorTrailDoc(s) ==
  LET l == loc[s] IN
  /\ pc[s] = "m_trail_doc"
  /\ positions' = [positions EXCEPT ![PosDoc(l).id].stopLoss = l.stopLoss,
                                    ![PosDoc(l).id].stopLossOrderId = l.stopLossOrderId]
  /\ Goto(s, "m_update", l)
  /\ UNCHANGED <<obs, peakRec, cooldownRec, closeSeq, closeLogs, exchange,
                 history, started, config>>

\* updateDocument(lastChecked, lastPrice, unrealizedPnL): none of them modelled
MonitorUpdate(s) ==
  /\ pc[s] = "m_update"
  /\ MonitorNext(s, loc[s])
  /\ UNCHANGED <<store, exchange, history, started, config>>

\* ------------------------------------------------------------------ scanner
NewOB(c) ==
  [exists |-> TRUE, type |-> c.type, timeframe |-> c.timeframe, bottom |-> c.bottom,
   top |-> c.top, breakoutPrice |-> c.breakoutPrice, confidence |-> c.confidence,
   age |-> 0, isActive |-> TRUE, isBroken |-> FALSE, isProcessed |-> FALSE,
   processedReason |-> ""]

\* the breakout a scan reports was confirmed by the latest candle: two reports
\* of one type with no time between them are the same breakout
SameBreakout(o, c) == obs[o].exists /\ obs[o].type = c.type /\ obs[o].age = 0

\* getKlines and findPotentialOrderBlocks on the klines of the timeframe the
\* invocation is configured for (config.timeframe): at most one new OB in the
\* last candles.  The latest candle's price is first used by the break check and
\* is drawn there.
ScannerDetect(s) ==
  /\ Start(s)
  /\ \/ \E c \in Candidates, tf \in scanTimeframes :
          Goto(s, "s_dup", [NoLocals EXCEPT !.job = "scanner", !.timeframe = tf,
                                            !.side = c.type, !.stopLoss = c.bottom])
     \/ Goto(s, "s_active", [NoLocals EXCEPT !.job = "scanner"])
  /\ UNCHANGED <<store, exchange, history, config>>

Detected(l) ==
  LET c == CHOOSE c \in Candidates : c.type = l.side /\ c.bottom = l.stopLoss
  IN [c EXCEPT !.timeframe = l.timeframe]

\* listDocuments(order_blocks, symbol, confirmationTime, type, limit 1)
ScannerDedup(s) ==
  /\ pc[s] = "s_dup"
  /\ IF \E o \in ObIds : SameBreakout(o, Detected(loc[s]))
     THEN Goto(s, "s_active", loc[s])
     ELSE Goto(s, "s_create", loc[s])
  /\ UNCHANGED <<store, exchange, history, started, config>>

ScannerCreate(s) ==
  /\ pc[s] = "s_create"
  /\ UsedOBs # ObIds
  /\ obs' = [obs EXCEPT ![NewId(UsedOBs, ObIds)] = NewOB(Detected(loc[s]))]
  /\ Goto(s, "s_active", loc[s])
  /\ UNCHANGED <<positions, peakRec, cooldownRec, closeSeq, closeLogs, exchange, history, started, config>>

\* the per-OB catch: a failed lookup or create is logged and the scan goes on
ScannerSaveFailed(s) ==
  /\ pc[s] \in {"s_dup", "s_create"}
  /\ Goto(s, "s_active", loc[s])
  /\ UNCHANGED <<store, exchange, history, started, config>>

\* wick invalidation against the latest candle
IsBroken(o, currentPrice) ==
  IF obs[o].type = "BULLISH" THEN currentPrice < obs[o].bottom ELSE currentPrice > obs[o].top

\* listDocuments(order_blocks, isActive, limit 100), then the loop up to its
\* first updateDocument
ScannerListActive(s) ==
  LET l == loc[s] IN
  /\ pc[s] = "s_active"
  /\ \E price \in Prices :
       LET broken == {o \in ObIds : obs[o].exists /\ obs[o].isActive /\ IsBroken(o, price)}
       IN IF broken = {} THEN Return(s)
          ELSE Goto(s, "s_break", [l EXCEPT !.docs = SortBy(broken, PosKey), !.idx = 1])
  /\ UNCHANGED <<store, exchange, history, started, config>>

\* Variant of ScannerBreak that writes the whole document back with fresh flags.
ScannerBreakRewrites(s) ==
  LET l == loc[s] IN
  /\ pc[s] = "s_break"
  /\ obs' = [obs EXCEPT ![l.docs[l.idx]].isActive = FALSE, ![l.docs[l.idx]].isBroken = TRUE,
                        ![l.docs[l.idx]].isProcessed = FALSE]
  /\ IF l.idx + 1 > Len(l.docs) THEN Return(s) ELSE Goto(s, "s_break", [l EXCEPT !.idx = @ + 1])
  /\ UNCHANGED <<positions, peakRec, cooldownRec, closeSeq, closeLogs, exchange, history,
                 started, config>>

ScannerBreak(s) ==
  LET l == loc[s] IN
  /\ pc[s] = "s_break"
  /\ obs' = [obs EXCEPT ![l.docs[l.idx]].isActive = FALSE, ![l.docs[l.idx]].isBroken = TRUE]
  /\ IF l.idx + 1 > Len(l.docs) THEN Return(s) ELSE Goto(s, "s_break", [l EXCEPT !.idx = @ + 1])
  /\ UNCHANGED <<positions, peakRec, cooldownRec, closeSeq, closeLogs, exchange, history, started, config>>

\* -------------------------------------------------------------------- Init
\* The functions keep nothing between invocations: the state is the store and
\* the exchange as earlier invocations left them.  A behaviour starts either at
\* a fresh deployment or at one of the later states below.
OBAt(c, age, processedReason) ==
  [NewOB(c) EXCEPT !.age = age, !.isProcessed = (processedReason # ""),
                   !.processedReason = processedReason]

Template(type, bottom) == CHOOSE c \in Candidates : c.type = type /\ c.bottom = bottom

\* the Position a market entry on the candidate's breakout price leaves behind
OpenedOn(c, balance, ob, stopId) ==
  LET side == IF c.type = "BULLISH" THEN "LONG" ELSE "SHORT"
      stopLoss == StopLossFor(c, side)
  IN [NoPosition EXCEPT
        !.status = "OPEN", !.side = side, !.avgEntryPrice = c.breakoutPrice,
        !.size = PositionSize(balance, Abs(c.breakoutPrice - stopLoss), 0),
        !.stopLoss = stopLoss, !.stopLossOrderId = stopId, !.relatedOB = ob,
        !.lastOBBottom = c.bottom, !.lastOBTop = c.top]

NoGateRecords == peakRec = NoRec /\ cooldownRec = NoRec

FlatExchange ==
  /\ exSize = 0
  /\ exOrders = [o \in OrderIds |-> NoOrder]
  /\ exStops = {}
  /\ nStops = 0

\* a fresh deployment
HistFresh ==
  /\ obs = [o \in ObIds |-> NoOB]
  /\ positions = [i \in PosIds |-> NoPosition]
  /\ NoGateRecords
  /\ closeSeq = 0
  /\ FlatExchange

\* a scan has stored a new OB; entry runs have left an account_peak record
HistScanned ==
  /\ \E c \in Candidates : obs = [o \in ObIds |-> IF o = 1 THEN NewOB(c) ELSE NoOB]
  /\ positions = [i \in PosIds |-> NoPosition]
  /\ peakRec \in {100, 12000} /\ cooldownRec = NoRec
  /\ closeSeq = 0
  /\ FlatExchange

\* a market entry on OB 1 has been filled and recorded half a day ago (balance
\* and peak 10000), its stop order is live, and a scan has just stored OB 2
HistOpen ==
  \E pair \in { <<Template("BULLISH", 59000), Template("BULLISH", 58000)>>,
                <<Template("BEARISH", 60500), Template("BULLISH", 59000)>> } :
    LET c == pair[1]
        p == OpenedOn(c, 10000, 1, 1)
    IN /\ obs = [o \in ObIds |-> IF o = 1 THEN OBAt(c, TickMinutes, "position_opened")
                                 ELSE NewOB(pair[2])]
       /\ positions = [i \in PosIds |-> IF i = 1 THEN p ELSE NoPosition]
       /\ peakRec = 10000 /\ cooldownRec = NoRec
       /\ closeSeq = 0
       /\ exSize = Signed(p.side, p.size)
       /\ exOrders = [o \in OrderIds |->
            IF o = 1 THEN [status |-> "filled", side |-> p.side, size |-> p.size,
                           px |-> p.avgEntryPrice, ob |-> 1]
            ELSE NoOrder]
       /\ exStops = {StopOrder(1, p.side, p.size, p.stopLoss)}
       /\ nStops = 1

NoDecision ==
  [route |-> "", action |-> "", side |-> "", stopLoss |-> 0, size |-> 0, limitPrice |-> 0]

NoCalc ==
  [phase |-> "", currentPrice |-> 0, balance |-> 0, eligible |-> FALSE, d |-> NoDecision]

NoSwing == [index |-> -1, high |-> 0, low |-> 0, crossed |-> FALSE]

NoDet ==
  [phase |-> "off", detector |-> "", klines |-> <<>>, volumeMethod |-> "",
   volumeParam |-> 0, atr |-> 0,
   lastSwingHigh |-> NoSwing, lastSwingLow |-> NoSwing,
   bullishOBs |-> <<>>, bearishOBs |-> <<>>]

\* every position closed so far has its CLOSE entry
LoggedSoFar ==
  closeLogs = [i \in PosIds |-> IF positions[i].status = "CLOSED" THEN 1 ELSE 0]

InitRuns ==
  /\ pc = [s \in Slots |-> "idle"]
  /\ loc = [s \in Slots |-> NoLocals]
  /\ started = 0
  /\ postFillFailed = {}
  /\ postFillReported = {}
  /\ overlapped = FALSE

\* the first scan has stored an OB; no entry run has reached the gate yet
HistFirstScan ==
  /\ \E c \in Candidates : obs = [o \in ObIds |-> IF o = 1 THEN NewOB(c) ELSE NoOB]
  /\ positions = [i \in PosIds |-> NoPosition]
  /\ NoGateRecords
  /\ closeSeq = 0
  /\ FlatExchange

\* the Position OpenedOn leaves behind once its stop has triggered and the
\* monitor has closed it, as the n-th close, on an earlier day
StoppedOut(c, balance, ob, n) ==
  LET p == OpenedOn(c, balance, ob, n)
  IN [p EXCEPT !.status = "CLOSED", !.exitReason = "STOP_LOSS_TRIGGERED",
               !.exitPrice = p.stopLoss,
               !.pnl = PnL(p.side, p.avgEntryPrice, p.size, p.stopLoss),
               !.exitSeq = n, !.exitToday = FALSE]

\* maxConsecutiveLosses entries on OB 1 have been stopped out on earlier
\* days, and a scan has just stored OB 2
HistLosses ==
  LET c == Template("BULLISH", 59000)
  IN /\ obs = [o \in ObIds |-> IF o = 1 THEN OBAt(c, 2 * TickMinutes, "position_opened")
                               ELSE NewOB(Template("BULLISH", 58000))]
     /\ positions = [i \in PosIds |-> StoppedOut(c, 10000, 1, i)]
     /\ peakRec = 10000 /\ cooldownRec = NoRec
     /\ closeSeq = MaxPositions
     /\ FlatExchange

Init ==
  /\ HistFresh \/ HistScanned \/ HistOpen
  /\ InitRuns
  /\ LoggedSoFar
  /\ calc = NoCalc
  /\ overlap = TRUE
  /\ bounded = TRUE
  /\ avoidWeekends = TRUE
  /\ scanTimeframes = {entryTimeframe}
  /\ det = NoDet

\* a scan stored an OB exactly maxOBAgeMinutes ago
HistAged ==
  /\ \E c \in Candidates :
       obs = [o \in ObIds |-> IF o = 1 THEN OBAt(c, maxOBAgeMinutes, "") ELSE NoOB]
  /\ positions = [i \in PosIds |-> NoPosition]
  /\ peakRec = 10000 /\ cooldownRec = NoRec
  /\ closeSeq = 0
  /\ FlatExchange

\* an earlier trade was stopped out and closed; a later one is open
HistClosedAndOpen ==
  LET c1 == Template("BULLISH", 58000)
      c2 == Template("BULLISH", 59000)
      p1 == StoppedOut(c1, 10000, 1, 1)
      p2 == OpenedOn(c2, 10000, 2, 2)
  IN /\ obs = [o \in ObIds |-> IF o = 1 THEN OBAt(c1, 2 * TickMinutes, "position_opened")
                               ELSE OBAt(c2, TickMinutes, "position_opened")]
     /\ positions = [i \in PosIds |-> IF i = 1 THEN p1 ELSE IF i = 2 THEN p2
                                       ELSE NoPosition]
     /\ peakRec = 10000 /\ cooldownRec = NoRec
     /\ closeSeq = 1
     /\ exSize = Signed(p2.side, p2.size)
     /\ exOrders = [o \in OrderIds |->
          IF o = 1 THEN [status |-> "filled", side |-> p1.side, size |-> p1.size,
                         px |-> p1.avgEntryPrice, ob |-> 1]
          ELSE IF o = 2 THEN [status |-> "filled", side |-> p2.side, size |-> p2.size,
                              px |-> p2.avgEntryPrice, ob |-> 2]
          ELSE NoOrder]
     /\ exStops = {StopOrder(2, p2.side, p2.size, p2.stopLoss)}
     /\ nStops = 2

\* as HistLosses, the stops having triggered since the start of the day
HistLossesToday ==
  LET c == Template("BULLISH", 59000)
  IN /\ obs = [o \in ObIds |-> IF o = 1 THEN OBAt(c, 2 * TickMinutes, "position_opened")
                               ELSE NewOB(Template("BULLISH", 58000))]
     /\ positions = [i \in PosIds |->
                       [StoppedOut(c, 10000, 1, i) EXCEPT !.exitToday = TRUE]]
     /\ peakRec = 10000 /\ cooldownRec = NoRec
     /\ closeSeq = MaxPositions
     /\ FlatExchange

InitSeq ==
  /\ \/ HistFresh \/ HistScanned \/ HistOpen \/ HistAged \/ HistClosedAndOpen
     \/ HistLosses \/ HistLossesToday
  /\ InitRuns
  /\ LoggedSoFar
  /\ calc = NoCalc
  /\ overlap = FALSE
  /\ bounded = TRUE
  /\ avoidWeekends = TRUE
  /\ scanTimeframes = {entryTimeframe}
  /\ det = NoDet

\* ---------------------------------------------------------------- the system
EntryStep(s) ==
  \/ EntryListPositions(s) \/ EntryListOBs(s) \/ EntryMarketData(s)
  \/ GateBalance(s) \/ GateDailyLoss(s) \/ GateLossStreak(s)
  \/ GatePeakRead(s) \/ GatePeakCreate(s) \/ GatePeakUpdate(s)
  \/ GateCooldownRead(s) \/ GateCooldownDelete(s)
  \/ CooldownList(s) \/ CooldownUpdate(s) \/ CooldownCreate(s)
  \/ EntryExpire(s) \/ EntryTooSmall(s) \/ EntryCreatePending(s)
  \/ EntryPlaceOrder(s) \/ EntryMarkFailed(s)
  \/ EntryWait(s) \/ EntryCancel(s) \/ EntryMarkCancelled(s)
  \/ EntryUpdatePosition(s) \/ EntryUpdateOB(s) \/ EntryLog(s)

MonitorStep(s) ==
  \/ MonitorList(s) \/ MonitorPrice(s) \/ MonitorLive(s)
  \/ MonitorCloseDoc(s) \/ MonitorLog(s)
  \/ MonitorHTF(s) \/ MonitorReversal(s) \/ MonitorClose(s)
  \/ MonitorATR(s) \/ MonitorTrail(s) \/ MonitorTrailDoc(s) \/ MonitorUpdate(s)

ScannerStep(s) ==
  \/ ScannerDetect(s) \/ ScannerDedup(s) \/ ScannerCreate(s) \/ ScannerSaveFailed(s)
  \/ ScannerListActive(s) \/ ScannerBreak(s)

Environment == Tick \/ Midnight \/ ExchangeFill \/ ExchangeStop

Next ==
  \/ \E s \in Slots : EntryStep(s) \/ MonitorStep(s) \/ ScannerStep(s) \/ Throw(s)
  \/ Environment

\* invocations may overlap
Spec == Init /\ [][Next]_vars

\* each invocation finishes before the next starts
SpecSeq == InitSeq /\ [][Next]_vars

\* The entry job alone, run on schedule for ever, one invocation at a time,
\* with no store failure, the clock advancing, weekends not avoided.
InitLive ==
  /\ HistFirstScan \/ HistScanned \/ HistLosses
  /\ InitRuns
  /\ LoggedSoFar
  /\ calc = NoCalc
  /\ overlap = FALSE
  /\ bounded = FALSE
  /\ avoidWeekends = FALSE
  /\ scanTimeframes = {entryTimeframe}
  /\ det = NoDet

NextLive ==
  \/ \E s \in Slots : EntryStep(s)
  \/ Tick
  \/ ExchangeFill
  \/ ExchangeStop

SpecLive ==
  /\ InitLive /\ [][NextLive]_vars
  /\ WF_vars(\E s \in Slots : EntryStep(s))
  /\ WF_vars(Tick)

\* ------------------------------------- steps 4 to 6 of the entry job alone
\* One OB and at most one OPEN position in the store; the price and the balance
\* the run fetched range over a grid fine enough to cross every threshold of
\* the eligibility test, the sizing and the routing.
CalcPriceSteps == 30
CalcPrices == {58000 + 100 * k : k \in 0..CalcPriceSteps}
CalcBalances == {100, 2000, 10000, 12000}

CalcCandidates ==
  { [type |-> sh[1], timeframe |-> "4h", bottom |-> sh[2], top |-> sh[3],
     breakoutPrice |-> sh[4], confidence |-> cf] :
      sh \in { <<"BULLISH", 59000, 59500, 60000>>, <<"BULLISH", 59000, 59500, 0>>,
               <<"BEARISH", 60000, 60500, 59500>>, <<"BEARISH", 60000, 60500, 0>> },
      cf \in {"high", "low"} }

CalcPositions ==
  {NoPosition} \cup
  { [NoPosition EXCEPT
       !.status = "OPEN", !.side = side, !.avgEntryPrice = avg, !.size = 1000,
       !.stopLoss = IF side = "LONG" THEN 57000 ELSE 62000, !.stopLossOrderId = 1,
       !.additionCount = n, !.lastOBBottom = ref[1], !.lastOBTop = ref[2]] :
      side \in {"LONG", "SHORT"}, avg \in {58000, 61000}, n \in 0..maxAdditions,
      ref \in { <<57000, 57500>>, <<58500, 59000>>, <<62000, 62500>>, <<63000, 63500>> } }

InitCalc ==
  /\ \E c \in CalcCandidates, p \in CalcPositions :
       /\ obs = [o \in ObIds |-> IF o = 1 THEN NewOB(c) ELSE NoOB]
       /\ positions = [i \in PosIds |-> IF i = 1 THEN p ELSE NoPosition]
       /\ exSize = Signed(p.side, p.size)
       /\ exStops = IF p.status = "OPEN"
                    THEN {StopOrder(1, p.side, p.size, p.stopLoss)} ELSE {}
       /\ nStops = IF p.status = "OPEN" THEN 1 ELSE 0
  /\ exOrders = [o \in OrderIds |-> NoOrder]
  /\ peakRec = 10000 /\ cooldownRec = NoRec /\ closeSeq = 0
  /\ InitRuns
  /\ LoggedSoFar
  /\ overlap = FALSE /\ bounded = TRUE /\ avoidWeekends = TRUE
  /\ scanTimeframes = {entryTimeframe}
  /\ det = NoDet
  /\ \E x \in CalcPrices, b \in CalcBalances :
       calc = [NoCalc EXCEPT !.phase = "in", !.currentPrice = x, !.balance = b]

\* what the run holds when it reaches the for-loop of step 4
CalcLocals ==
  [NoLocals EXCEPT
     !.job = "entry",
     !.existingPosition = IF positions[1].status = "OPEN" THEN Snapshot(1) ELSE NoSnapshot,
     !.currentPrice = calc.currentPrice, !.balance = calc.balance]

\* step 4 on the OB
CalcEligible ==
  /\ calc.phase = "in"
  /\ calc' = [calc EXCEPT !.phase = "eligible",
                          !.eligible = ~Expired(1) /\ Eligible(CalcLocals, 1)]
  /\ UNCHANGED <<store, exchange, history, pc, loc, started, bounded, overlap,
                 avoidWeekends, scanTimeframes, det>>

\* steps 5 and 6 on the selected OB
CalcDecision ==
  /\ calc.phase = "eligible" /\ calc.eligible
  /\ calc' = [calc EXCEPT
               !.phase = "decided",
               !.d = Decision(CalcLocals.existingPosition, obs[1],
                              calc.currentPrice, calc.balance)]
  /\ UNCHANGED <<store, exchange, history, pc, loc, started, bounded, overlap,
                 avoidWeekends, scanTimeframes, det>>

\* the run goes on from the decision as the entry job does
CalcPlan ==
  /\ calc.phase = "decided" /\ pc[1] = "idle"
  /\ Plan(loc, 1, CalcLocals, 1)
  /\ calc' = [calc EXCEPT !.phase = "planned"]
  /\ UNCHANGED <<store, exchange, history, started, bounded, overlap, avoidWeekends,
                 scanTimeframes, det>>

EntryAfterPlan(s) ==
  \/ EntryTooSmall(s) \/ EntryCreatePending(s)
  \/ EntryPlaceOrder(s) \/ EntryMarkFailed(s)
  \/ EntryWait(s) \/ EntryCancel(s) \/ EntryMarkCancelled(s)
  \/ EntryUpdatePosition(s) \/ EntryUpdateOB(s) \/ EntryLog(s)

NextCalc ==
  \/ CalcEligible \/ CalcDecision \/ CalcPlan
  \/ \E s \in Slots : EntryAfterPlan(s)
  \/ ExchangeFill

SpecCalc == InitCalc /\ [][NextCalc]_vars

\* =================================================================== claims
EntryRuns == {s \in Slots : pc[s] # "idle" /\ loc[s].job = "entry"}

\* C1: with no two invocations overlapping, the store never holds more than
\* one OPEN Position, and an entry run that has read an OPEN position has
\* created no Position record (checked under SpecSeq).
C1_OneOpenPosition ==
  /\ Cardinality(OpenPositions) <= 1
  /\ \A s \in EntryRuns : loc[s].existingPosition.id # NoId => loc[s].pendingDoc = NoId

\* an entry run that read the OPEN position has had its order filled and is
\* about to write the addition
C1_Witness ==
  \E s \in EntryRuns : /\ loc[s].existingPosition.id # NoId
                       /\ pc[s] = "e_db_pos"
                       /\ Cardinality(OpenPositions) = 1

\* C2: when entry runs overlap, two Positions can be OPEN at once; that can
\* only happen when an entry run started while another was in flight, every
\* creating run having read no OPEN position (checked under Spec).
C2_TwoOpenOnlyByOverlap ==
  /\ Cardinality(OpenPositions) >= 2 => overlapped
  /\ \A s \in EntryRuns : loc[s].pendingDoc # NoId => loc[s].existingPosition.id = NoId

C2_Witness == Cardinality(OpenPositions) >= 2

Terminal(p) ==
  <<p.status, p.exitReason, p.exitPrice, p.pnl, p.size, p.avgEntryPrice,
    p.additionCount, p.stopLoss>>

\* C3: once a Position is CLOSED, no step changes its status, exitReason,
\* exitPrice, pnl, size, avgEntryPrice, additionCount or stopLoss.
C3_ClosedIsTerminal ==
  [][\A i \in PosIds : positions[i].status = "CLOSED"
        => Terminal(positions'[i]) = Terminal(positions[i])]_vars

GatePcs == {"e_market", "g_balance", "g_daily", "g_streak", "g_peak_read", "g_peak_create",
            "g_peak_update", "g_cd_read", "g_cd_delete"}

\* what the clock alone changes in an OB is left out
Flags(ob) == [ob EXCEPT !.age = 0]

\* C4: a step of an entry run that is inside the gate, or that carries a BLOCK
\* verdict, places no order and changes no Position and no OrderBlock record.
C4_BlockedRunWritesNothing ==
  [][\A s \in Slots :
       (/\ loc[s].job = "entry"
        /\ pc[s] \in GatePcs \/ loc[s].reason # ""
        /\ pc'[s] # pc[s])
       => /\ positions' = positions
          /\ \A o \in ObIds : Flags(obs'[o]) = Flags(obs[o])
          /\ exchange' = exchange]_vars

\* a run blocked for a severe reason is arming the cooldown
C4_Witness == \E s \in EntryRuns : loc[s].reason # "" /\ pc[s] = "c_create"

\* C5: when an entry run has finished its store writes for a filled order and
\* the exchange position is still live, the Position it opened or increased
\* is OPEN with a live stop order of the stored id, at the stored stopLoss,
\* for the stored size (checked under SpecSeq: no other run interferes).
C5_OpenHasLiveStop ==
  \A s \in EntryRuns :
    pc[s] = "e_log" /\ exSize # 0
      => LET p == positions[WrittenPosition(loc[s])] IN
         /\ p.status = "OPEN"
         /\ \E st \in exStops : /\ st.id = p.stopLossOrderId
                                /\ st.px = p.stopLoss
                                /\ st.size = p.size

\* C6: no order is placed for the OrderBlock of an earlier order whose run
\* failed on a store write after the fill (checked under SpecSeq, where the
\* later order belongs to a later run).
C6_NoRepeatedOrder ==
  \A o1 \in postFillFailed : \A o2 \in OrderIds :
    o2 > o1 /\ exOrders[o2].status # "none" => exOrders[o2].ob # exOrders[o1].ob

\* C7: a cooldown armed for consecutive_losses is eventually cleared when the
\* entry job keeps running and time keeps passing (checked under SpecLive).
C7_CooldownClears ==
  (cooldownRec # NoRec /\ ConsecutiveLosses >= maxConsecutiveLosses)
     ~> (cooldownRec = NoRec)

\* C8: the stored stopLoss of a LONG Position never decreases, that of a SHORT
\* Position never increases.
C8_StopOnlyTightens ==
  [][\A i \in PosIds :
       positions[i].status # "NONE"
         => /\ positions[i].side = "LONG" => positions'[i].stopLoss >= positions[i].stopLoss
            /\ positions[i].side = "SHORT" => positions'[i].stopLoss <= positions[i].stopLoss]_vars

\* C9: an OB record is never deleted, its type, range, breakout, confidence and
\* confirmation time never change, isProcessed and isBroken are never reset
\* and isActive is never set again.
C9_OBMonotonic ==
  [][\A o \in ObIds :
       obs[o].exists
         => /\ obs'[o].exists
            /\ [Flags(obs'[o]) EXCEPT !.isActive = FALSE, !.isBroken = FALSE,
                                      !.isProcessed = FALSE, !.processedReason = ""]
               = [Flags(obs[o]) EXCEPT !.isActive = FALSE, !.isBroken = FALSE,
                                       !.isProcessed = FALSE, !.processedReason = ""]
            /\ obs'[o].age >= obs[o].age
            /\ obs[o].isProcessed => obs'[o].isProcessed
            /\ obs[o].isBroken => obs'[o].isBroken
            /\ obs'[o].isActive => obs[o].isActive]_vars

\* an OB both written off by the entry job and broken by the scanner
C9_Witness == \E o \in ObIds : obs[o].isProcessed /\ obs[o].isBroken /\ started > 0

\* C10: no write to the account_peak record lowers it.
C10_PeakNeverDecreases == [][peakRec # NoRec => peakRec' >= peakRec]_vars

\* C11: a run whose live-position lookup failed writes to no Position, and a
\* gate call whose balance lookup failed does not go on to arm a cooldown.
C11_FailedQueryChangesNothing ==
  [][\A s \in Slots :
       pc'[s] # pc[s]
         => /\ loc[s].lookupFailed => positions' = positions
            /\ (loc[s].job = "entry" /\ pc[s] \in GatePcs
                   /\ loc[s].currentBalance = FailedBalance /\ pc[s] # "g_balance"
                   /\ pc[s] # "e_market")
                 => pc'[s] # "c_list"]_vars

\* C12: a monitor run that has updated a position's stop in this cycle is not
\* about to write to that position again, and a run that has written the
\* close of a position goes straight on to the next position.
C12_FirstMatchWins ==
  \A s \in Slots :
    loc[s].job = "monitor"
      => /\ ~(pc[s] = "m_update" /\ loc[s].stopLossOrderId # NoId)
         /\ pc[s] = "m_log" => positions[PosDoc(loc[s]).id].status = "CLOSED"

\* C13: when an entry run marks its PENDING record CANCELLED after the wait,
\* its limit order is cancelled on the exchange (neither resting nor filled),
\* the record was PENDING, and the OrderBlock is still unprocessed.
C13_UnfilledLimitIsCancelled ==
  [][\A s \in Slots :
       pc[s] = "e_cancelled" /\ positions' # positions
         => /\ exOrders[loc[s].orderId].status = "cancelled"
            /\ positions[loc[s].pendingDoc].status = "PENDING"
            /\ positions'[loc[s].pendingDoc].status = "CANCELLED"
            /\ ~obs'[loc[s].selectedOB].isProcessed]_vars

C15_AddOnlyWhenAllowed ==
  /\ (calc.phase \in {"eligible", "decided"} /\ calc.eligible
         /\ positions[1].status = "OPEN")
       => LET p == positions[1]
              ob == obs[1]
              long == p.side = "LONG"
              pnl == IF long THEN (calc.currentPrice - p.avgEntryPrice) * p.size
                     ELSE (p.avgEntryPrice - calc.currentPrice) * p.size
              ref == IF long THEN p.lastOBBottom ELSE p.lastOBTop
              edge == IF long THEN ob.bottom ELSE ob.top
          IN /\ ob.type = (IF long THEN "BULLISH" ELSE "BEARISH")
             /\ p.additionCount < maxAdditions
             /\ pnl * 10 >= minProfitForAdditionX10 * calc.balance * (lotsPerUnit \div 100)
             /\ \/ long /\ edge * 100 > ref * 102
                \/ ~long /\ edge * 100 < ref * 98
                \/ Abs(edge - ref) * 100 < 5 * ref /\ ob.confidence = "high"
  /\ calc.phase = "decided" /\ calc.d.action = "ADD" => positions[1].status = "OPEN"
  /\ \A i \in PosIds : positions[i].additionCount <= maxAdditions

C15_Witness ==
  /\ pc[1] = "e_log" /\ loc[1].action = "ADD"
  /\ positions[1].additionCount = maxAdditions
  /\ obs[1].confidence = "low"

\* C16: when the entry price is at the OB edge used as stop-loss or on the wrong
\* side of it (LONG: price <= OB bottom; SHORT: price >= OB top), sizing fails
\* and the run takes neither order route.
C16_NoOrderOnWrongSideOfStop ==
  (calc.phase = "decided"
     /\ \/ calc.d.side = "LONG" /\ calc.currentPrice <= obs[1].bottom
        \/ calc.d.side = "SHORT" /\ calc.currentPrice >= obs[1].top)
    => calc.d.route \notin {"market", "limit"}

\* C17: the size of an opening order never exceeds the risk budget and
\* falls short of it by less than one size increment: size * riskDistance <=
\* riskAmount and riskAmount - size * riskDistance < sizeIncrement *
\* riskDistance, with riskAmount = balance * riskPercent / 100 (no leverage).
\* (Both sides are multiplied by 1000 * lotsPerUnit.)
C17_SizeWithinOneIncrementOfBudget ==
  (calc.phase = "decided" /\ calc.d.action = "OPEN"
     /\ calc.d.route \in {"market", "limit"})
    => LET riskDistance == Abs(calc.currentPrice - calc.d.stopLoss)
           riskAmount == calc.balance * riskPercentX10 * lotsPerUnit
           atRisk == calc.d.size * riskDistance * 1000
       IN /\ atRisk <= riskAmount
          /\ riskAmount - atRisk < riskDistance * 1000

\* C18: every order the entry job places has a size of at least minSize and a
\* margin (size * price / leverage) of at most 95 % of the balance; a size below
\* minSize gets the OB marked processed (size_too_small) with no order and no
\* position record; a failed margin check ends the run with no order, no
\* position record and the OB still unprocessed.
C18_OrdersWithinSizeAndMargin ==
  calc.phase = "planned"
    => LET size == calc.d.size
           unsizable == calc.currentPrice = calc.d.stopLoss
           tooSmall == ~unsizable /\ size < minSizeLots
           marginFails ==
             \/ unsizable
             \/ /\ ~tooSmall
                /\ size * calc.currentPrice
                     > calc.balance * 95 * (lotsPerUnit \div 100) * leverage
           noOrder == \A o \in OrderIds : exOrders[o].status = "none"
           noRecord == \A i \in PosIds : positions[i].status \in {"NONE", "OPEN"}
       IN /\ \A o \in OrderIds :
               exOrders[o].status # "none"
                 => /\ exOrders[o].size = size
                    /\ size >= minSizeLots
                    /\ ~marginFails
          /\ tooSmall
               => /\ noOrder /\ noRecord
                  /\ pc[1] = "idle"
                       => /\ obs[1].isProcessed
                          /\ obs[1].processedReason = "size_too_small"
          /\ marginFails
               => /\ pc[1] = "idle" /\ noOrder /\ noRecord
                  /\ ~obs[1].isProcessed

C18_Witness ==
  /\ calc.phase = "planned" /\ pc[1] = "idle"
  /\ calc.d.size < minSizeLots
  /\ obs[1].processedReason = "size_too_small"

\* C19: once the size and the margin are accepted, the deviation of the current
\* price from the OB's breakout price alone picks the route: a market order iff
\* it is at most maxDeviationForMarket, a limit order (the only kind that
\* rests) iff it is above that and at most maxDeviationForLimit, and above
\* maxDeviationForLimit the run ends with no order, no position record and
\* the OB still unprocessed.
C19_RouteByDeviation ==
  [][calc'.phase = "planned"
       => LET ob == obs[1]
              breakout == IF ob.breakoutPrice > 0 THEN ob.breakoutPrice
                          ELSE IF ob.type = "BULLISH" THEN ob.top ELSE ob.bottom
              deviation == Abs(calc.currentPrice - breakout) * 1000
              forMarket == deviation <= maxDeviationForMarketX10 * breakout
              forLimit == ~forMarket /\ deviation <= maxDeviationForLimitX10 * breakout
              size == calc.d.size
              accepted ==
                /\ calc.currentPrice # calc.d.stopLoss
                /\ size >= minSizeLots
                /\ size * calc.currentPrice
                     <= calc.balance * 95 * (lotsPerUnit \div 100) * leverage
              ordering == pc'[1] \in {"e_pending", "e_order"}
          IN accepted
               => /\ calc.phase = "decided"
                       => /\ forMarket <=> (ordering /\ loc'[1].orderType = "market")
                          /\ forLimit <=> (ordering /\ loc'[1].orderType = "limit")
                          /\ (~forMarket /\ ~forLimit) <=> pc'[1] = "idle"
                  /\ (\E o \in OrderIds : exOrders'[o].status = "resting") => forLimit
                  /\ (~forMarket /\ ~forLimit)
                       => /\ \A o \in OrderIds : exOrders'[o].status = "none"
                          /\ \A i \in PosIds : positions'[i].status \in {"NONE", "OPEN"}
                          /\ ~obs'[1].isProcessed]_vars

C19_Witness ==
  /\ calc.phase = "planned" /\ pc[1] = "e_wait"
  /\ \E o \in OrderIds : exOrders[o].status = "resting"

\* C20: a position-monitor run lists only the positions that are OPEN when it
\* starts, and no step of it writes, closes on the exchange for, or logs a
\* position it did not list: one that was already CLOSED is left as it is; a
\* run that finds no OPEN position ends at once and changes nothing.
C20_ClosedPositionUntouched ==
  [][\A s \in Slots :
       LET listed == {loc[s].posDocs[k].id : k \in 1..Len(loc[s].posDocs)}
           listing == {loc'[s].posDocs[k].id : k \in 1..Len(loc'[s].posDocs)}
       IN /\ (pc[s] = "idle" /\ pc'[s] # "idle" /\ loc'[s].job = "monitor")
               => /\ \A i \in listing : positions[i].status = "OPEN"
                  /\ UNCHANGED <<store, exchange>>
          /\ (started' # started /\ pc' = pc) => UNCHANGED <<store, exchange>>
          /\ (loc[s].job = "monitor" /\ (pc'[s] # pc[s] \/ loc'[s] # loc[s]))
               => /\ \A i \in PosIds \ listed : positions'[i] = positions[i]
                  /\ (exchange' # exchange \/ pc[s] = "m_log")
                       => PosDoc(loc[s]).id \in listed]_vars

C20_Witness ==
  \E s \in Slots :
    /\ loc[s].job = "monitor" /\ pc[s] = "m_log"
    /\ positions[PosDoc(loc[s]).id].status = "CLOSED"
    /\ \E i \in PosIds :
         /\ positions[i].status = "CLOSED"
         /\ \A k \in 1..Len(loc[s].posDocs) : loc[s].posDocs[k].id # i

\* C21: when the exchange reports no live position for a listed OPEN position,
\* the monitor closes the record with exitReason STOP_LOSS_TRIGGERED, exitPrice
\* the stored stopLoss and pnl (stopLoss - avgEntryPrice) * size for LONG,
\* (avgEntryPrice - stopLoss) * size for SHORT, and sends nothing to the
\* exchange.
C21_StoppedOutIsClosedAtStop ==
  [][\A s \in Slots :
       (loc[s].job = "monitor" /\ pc'[s] \notin {pc[s], "idle"})
         => LET id == PosDoc(loc[s]).id
                p == positions[id]
                q == positions'[id]
            IN /\ (pc[s] = "m_live" /\ exSize = 0)
                    => /\ pc'[s] = "m_close_doc"
                       /\ loc'[s].exitReason = "STOP_LOSS_TRIGGERED"
                       /\ UNCHANGED <<store, exchange>>
               /\ (pc[s] = "m_close_doc" /\ loc[s].exitReason = "STOP_LOSS_TRIGGERED")
                    => /\ q.status = "CLOSED"
                       /\ q.exitReason = "STOP_LOSS_TRIGGERED"
                       /\ q.exitPrice = p.stopLoss
                       /\ q.pnl = IF p.side = "LONG"
                                  THEN (p.stopLoss - p.avgEntryPrice) * p.size
                                  ELSE (p.avgEntryPrice - p.stopLoss) * p.size
                       /\ UNCHANGED exchange]_vars

C21_Witness ==
  \E s \in Slots :
    /\ loc[s].job = "monitor" /\ pc[s] = "m_log" /\ exSize = 0
    /\ LET q == positions[PosDoc(loc[s]).id]
       IN q.exitReason = "STOP_LOSS_TRIGGERED" /\ q.side = "SHORT" /\ q.pnl < 0

\* C22: the monitor decides to close a position for REVERSAL_OB only when some
\* active OB of the entry timeframe is of the opposite direction, at most
\* minReversalOBAge hours old, of high confidence, and holds the current price
\* within its range (bottom <= price <= top).
C22_ReversalOnlyInsideOB ==
  [][\A s \in Slots :
       (pc[s] = "m_reversal" /\ loc'[s].exitReason = "REVERSAL_OB")
         => \E o \in ObIds :
              /\ obs[o].exists /\ obs[o].isActive
              /\ obs[o].timeframe = entryTimeframe
              /\ obs[o].type = (IF PosDoc(loc[s]).side = "LONG" THEN "BEARISH"
                                ELSE "BULLISH")
              /\ obs[o].age <= minReversalOBAgeHours * 60
              /\ obs[o].confidence = "high"
              /\ obs[o].bottom <= loc[s].currentPrice
              /\ loc[s].currentPrice <= obs[o].top]_vars

C24_OneCloseLogPerClose ==
  \A i \in PosIds :
    LET logging == \E s \in Slots : /\ loc[s].job = "monitor" /\ pc[s] = "m_log"
                                    /\ PosDoc(loc[s]).id = i
    IN /\ closeLogs[i] <= 1
       /\ (positions[i].status = "CLOSED" /\ ~logging) => closeLogs[i] = 1

\* C25: the gate runs its checks in the order trading hours, daily loss, loss
\* streak, drawdown, cooldown; a failing check ends the gate with its own
\* reason and none of the later checks is run; the entry job goes on to the
\* OBs only from the last check, when that one has passed too.
C25_GateOrderFirstFailure ==
  [][\A s \in Slots :
       (loc[s].job = "entry" /\ pc'[s] \notin {pc[s], "idle"})
         => LET b == loc[s].currentBalance
                blockedAs(reason) ==
                  /\ pc'[s] = "c_list" /\ loc'[s].reason = reason
                  /\ UNCHANGED <<store, exchange>>
            IN /\ pc'[s] = "g_balance" => pc[s] = "e_market"
               /\ pc'[s] = "g_daily" => pc[s] = "g_balance"
               /\ pc'[s] = "g_streak" => pc[s] = "g_daily"
               /\ pc'[s] = "g_peak_read" => pc[s] = "g_streak"
               /\ pc'[s] \in {"g_peak_create", "g_peak_update"} => pc[s] = "g_peak_read"
               /\ pc'[s] = "g_cd_read"
                    => pc[s] \in {"g_peak_read", "g_peak_create", "g_peak_update"}
               /\ pc'[s] = "g_cd_delete" => pc[s] = "g_cd_read"
               /\ pc[s] = "g_daily"
                    => IF DailyLossBlocked(b) THEN blockedAs("daily_loss_limit")
                       ELSE pc'[s] = "g_streak"
               /\ pc[s] = "g_streak"
                    => IF ConsecutiveLosses >= maxConsecutiveLosses
                       THEN blockedAs("consecutive_losses")
                       ELSE pc'[s] = "g_peak_read"
               /\ pc[s] = "g_peak_read"
                    => IF peakRec # NoRec /\ b <= peakRec /\ DrawdownBlocked(peakRec, b)
                       THEN blockedAs("max_drawdown")
                       ELSE pc'[s] \in {"g_peak_create", "g_peak_update", "g_cd_read"}
               /\ pc'[s] = "c_list"
                    => pc[s] \in {"g_daily", "g_streak", "g_peak_read"}
               /\ (pc[s] \in {"e_market"} \cup GatePcs /\ pc'[s] \notin GatePcs \cup {"c_list"})
                    => /\ pc[s] \in {"g_cd_read", "g_cd_delete"}
                       /\ cooldownRec = NoRec \/ cooldownRec <= 0
                       /\ loc'[s].allowed]_vars

C25_Witness ==
  \E s \in Slots :
    /\ pc[s] = "c_list" /\ loc[s].reason = "max_drawdown"
    /\ ConsecutiveLosses > 0

\* C26: when the maxConsecutiveLosses most recently closed positions (by exit
\* time) all have pnl < 0, the loss-streak check of the gate blocks with reason
\* consecutive_losses and an entry run never gets past the gate; when there is
\* no closed position or the most recently closed one has pnl >= 0, the streak
\* is zero and the loss-streak check lets the run go on.  (A run that ends in
\* the gate with an exception is a block with reason protection_error.)
LatestAreLosses ==
  \E S \in SUBSET ClosedPositions :
    /\ Cardinality(S) = maxConsecutiveLosses
    /\ \A i \in S : positions[i].pnl < 0
    /\ \A i \in S : \A j \in ClosedPositions \ S :
         positions[j].exitSeq < positions[i].exitSeq

LatestIsNoLoss ==
  \A i \in ClosedPositions :
    (\A j \in ClosedPositions : positions[j].exitSeq <= positions[i].exitSeq)
       => positions[i].pnl >= 0

C26_StreakBlocks ==
  [][\A s \in Slots :
       /\ pc[s] = "g_streak" /\ pc'[s] \notin {"g_streak", "idle"} /\ LatestAreLosses
            => pc'[s] = "c_list" /\ loc'[s].reason = "consecutive_losses"
       /\ pc[s] = "g_streak" /\ pc'[s] \notin {"g_streak", "idle"} /\ LatestIsNoLoss
            => ConsecutiveLosses = 0 /\ pc'[s] = "g_peak_read"
       /\ pc[s] \in GatePcs /\ pc'[s] \notin GatePcs \cup {"idle", "c_list"}
            => ~LatestAreLosses]_vars

C26_Witness ==
  \E s \in Slots :
    /\ pc[s] = "c_list" /\ loc[s].reason = "consecutive_losses"
    /\ LatestAreLosses

\* C26 as stated: whenever the latest closed positions are
\* maxConsecutiveLosses losses, a gate verdict is a block with reason
\* consecutive_losses.
C26_AlwaysStreakReason ==
  [][\A s \in Slots :
       /\ pc[s] \in GatePcs \ {"e_market"} /\ pc'[s] \notin GatePcs \cup {"idle"}
       /\ loc[s].currentBalance >= minBalance
       /\ LatestAreLosses
       => pc'[s] = "c_list" /\ loc'[s].reason = "consecutive_losses"]_vars

\* ------------------------------------------------ the scanner on its own
\* Scanner deployments for the entry timeframe and for a target timeframe, run
\* on schedule one invocation at a time, the clock advancing.
InitScan ==
  /\ HistFresh
  /\ InitRuns
  /\ LoggedSoFar
  /\ calc = NoCalc
  /\ overlap = FALSE
  /\ bounded = FALSE
  /\ avoidWeekends = TRUE
  /\ scanTimeframes = {entryTimeframe, "1d"}
  /\ det = NoDet

NextScan ==
  \/ \E s \in Slots : ScannerStep(s)
  \/ Tick

SpecScan == InitScan /\ [][NextScan]_vars

\* the store holds a record of the breakout c confirmed by the latest candle
Stored(c) ==
  \E o \in ObIds :
    /\ obs[o].exists /\ obs[o].age = 0
    /\ obs[o].type = c.type /\ obs[o].timeframe = c.timeframe

\* C27: once the save step of a scan has run for a detected breakout (the
\* lookup answered and either found a match or the create was carried out),
\* the store holds a record of that breakout (timeframe, type, confirmation
\* time), and never two records of one breakout.
C27_OneRecordPerBreakout ==
  [][/\ \A s \in Slots :
          /\ pc'[s] = "s_active"
          /\ \/ pc[s] = "s_dup" /\ \E o \in ObIds : SameBreakout(o, Detected(loc[s]))
             \/ pc[s] = "s_create" /\ obs' # obs
          => Stored(Detected(loc[s]))'
     /\ \A o1, o2 \in ObIds :
          /\ o1 # o2 /\ obs'[o1].exists /\ obs'[o2].exists
          /\ obs'[o1].type = obs'[o2].type /\ obs'[o1].timeframe = obs'[o2].timeframe
          => obs'[o1].age # obs'[o2].age]_vars

\* ------------------------------------------------- OrderBlockDetector
\* findPotentialOrderBlocks on a candle series.  Iteration i of its loop reads
\* no candle beyond index i: the candle at index i is drawn when iteration i
\* runs, and the series ends wherever the function returns.  Indexes are those
\* of the code (from 0).
swingLength == 2        \* OB_SWING_LENGTH
volumeLookback == 2     \* VOLUME_LOOKBACK
MaxCandles == 5         \* klines.length at most
maxATRMultiplier10 == 35

Candle(o, h, l, c, v) == [open |-> o, high |-> h, low |-> l, close |-> c, volume |-> v]

\* a peak and a trough (wicks on a flat body), a candle closing above every
\* peak and one closing below every trough
DetCandles ==
  {Candle(30, 40, 30, 30, v) : v \in {0, 2}} \cup {Candle(30, 30, 10, 30, v) : v \in {0, 2}}
    \cup {Candle(20, 50, 20, 50, v) : v \in {1, 2}}
    \cup {Candle(30, 30, 0, 0, v) : v \in {1, 2}}

\* the copy of the detector that runs (the scanner's ob-detector or the one of
\* shared/utils.js, which takes no ATR), volumeMethod, volumeParam and the ATR
\* handed in (0: none)
DetConfigs ==
  {[detector |-> m[4], volumeMethod |-> m[1], volumeParam |-> m[2], atr |-> m[3]] :
     m \in {<<"percentile", 70, 0, "ob-detector">>, <<"percentile", 70, 5, "ob-detector">>,
            <<"percentile", 0, 0, "ob-detector">>, <<"sma", 1, 0, "ob-detector">>,
            <<"ema", 1, 0, "ob-detector">>, <<"stddev", 1, 0, "ob-detector">>,
            <<"stddev", -1, 0, "ob-detector">>, <<"median", 70, 0, "ob-detector">>,
            <<"percentile", 70, 0, "shared">>}}

K(k, j) == k[j + 1]

\* klines.slice(startIndex, endIndex).map(k => k.volume).filter(v => v > 0)
RECURSIVE NonZeroVolumes(_, _, _)
NonZeroVolumes(k, startIndex, endIndex) ==
  IF startIndex >= endIndex THEN <<>>
  ELSE (IF K(k, startIndex).volume > 0 THEN <<K(k, startIndex).volume>> ELSE <<>>)
         \o NonZeroVolumes(k, startIndex + 1, endIndex)

RECURSIVE Insert(_, _)
Insert(v, sorted) ==
  IF sorted = <<>> \/ v <= Head(sorted) THEN <<v>> \o sorted
  ELSE <<Head(sorted)>> \o Insert(v, Tail(sorted))

RECURSIVE Sorted(_)
Sorted(vols) == IF vols = <<>> THEN <<>> ELSE Insert(Head(vols), Sorted(Tail(vols)))

RECURSIVE Sum(_)
Sum(vols) == IF vols = <<>> THEN 0 ELSE Head(vols) + Sum(Tail(vols))

RECURSIVE SumSquares(_)
SumSquares(vols) == IF vols = <<>> THEN 0 ELSE Head(vols) * Head(vols) + SumSquares(Tail(vols))

\* the ema of the loop `ema = vols[i] * k + ema * (1 - k)`, k = 2 / (n + 1), as
\* the fraction <<numerator, denominator>>
RECURSIVE Ema(_, _)
Ema(vols, n) ==
  IF Len(vols) = 1 THEN <<vols[1], 1>>
  ELSE LET e == Ema(SubSeq(vols, 1, Len(vols) - 1), n)
       IN <<2 * vols[Len(vols)] * e[2] + (n - 1) * e[1], (n + 1) * e[2]>>

\* volume >= getVolumeThreshold(startIndex, endIndex, method, param), in
\* integers (an index outside the sorted array gives undefined, which no
\* volume is >= to)
MeetsThreshold(volume, k, startIndex, endIndex, method, param) ==
  LET vols == NonZeroVolumes(k, startIndex, endIndex)
      n == Len(vols)
  IN IF n = 0 THEN volume >= 0
     ELSE CASE method = "percentile" ->
                 LET idx == (param * (n - 1)) \div 100
                 IN idx >= 0 /\ idx < n /\ volume >= Sorted(vols)[idx + 1]
            [] method = "sma" -> volume * n >= Sum(vols) * param
            [] method = "ema" -> LET e == Ema(vols, n) IN volume * e[2] >= e[1] * param
            [] method = "stddev" ->
                 LET a == n * volume - Sum(vols)
                     b == n * SumSquares(vols) - Sum(vols) * Sum(vols)
                 IN IF param >= 0 THEN a >= 0 /\ a * a >= param * param * b
                    ELSE a >= 0 \/ a * a <= param * param * b
            [] OTHER -> volume >= 0

RECURSIVE MaxHigh(_, _, _)
MaxHigh(k, from, to) ==
  IF from = to THEN K(k, to).high ELSE Max(K(k, from).high, MaxHigh(k, from + 1, to))

RECURSIVE MinLow(_, _, _)
MinLow(k, from, to) ==
  IF from = to THEN K(k, to).low ELSE Min(K(k, from).low, MinLow(k, from + 1, to))

Swing(k, r) == [index |-> r, high |-> K(k, r).high, low |-> K(k, r).low, crossed |-> FALSE]

SwingHighAtOrEqual(k, i, last) ==
  IF K(k, i - swingLength).high >= MaxHigh(k, i - swingLength + 1, i)
  THEN Swing(k, i - swingLength) ELSE last

\* lastSwingHigh after the swing search of iteration i
SwingHighAt(k, i, last) ==
  IF K(k, i - swingLength).high > MaxHigh(k, i - swingLength + 1, i)
  THEN Swing(k, i - swingLength) ELSE last

SwingLowAt(k, i, last) ==
  IF K(k, i - swingLength).low < MinLow(k, i - swingLength + 1, i)
  THEN Swing(k, i - swingLength) ELSE last

\* useVolumeFilter and shouldCreateOB
shouldCreateOB(d, k, i) ==
  d.detector = "shared" \/ d.volumeParam > 0
    => MeetsThreshold(K(k, i).volume, k, Max(0, i - volumeLookback), i,
                      d.volumeMethod, d.volumeParam)

CrossedLeftOpen(swing) == swing

Crossed(swing) == [swing EXCEPT !.crossed = TRUE]

BodyMin(c) == Min(c.open, c.close)
BodyMax(c) == Max(c.open, c.close)

\* the index of the first candle of from..to-1 with the lowest body
RECURSIVE LowestBody(_, _, _)
LowestBody(k, from, to) ==
  IF from + 1 >= to THEN from
  ELSE LET rest == LowestBody(k, from, to - 1)
       IN IF BodyMin(K(k, to - 1)) < BodyMin(K(k, rest)) THEN to - 1 ELSE rest

\* the index of the first candle of from..to-1 with the highest body
RECURSIVE HighestBody(_, _, _)
HighestBody(k, from, to) ==
  IF from + 1 >= to THEN from
  ELSE LET rest == HighestBody(k, from, to - 1)
       IN IF BodyMax(K(k, to - 1)) > BodyMax(K(k, rest)) THEN to - 1 ELSE rest

\* the OB pushed for the swing, its box taken from candle box
DetectedOB(d, k, i, type, swing, box) ==
  [type |-> type, high |-> BodyMax(K(k, box)), low |-> BodyMin(K(k, box)),
   creationIndex |-> i, close |-> K(k, i).close,
   volume |-> K(k, i).volume + (IF i >= 1 THEN K(k, i - 1).volume ELSE 0)
                + (IF i >= 2 THEN K(k, i - 2).volume ELSE 0),
   confidence |->
     IF d.volumeParam > 0
          => MeetsThreshold(K(k, box).volume, k, Max(0, swing.index - volumeLookback), i,
                            d.volumeMethod, d.volumeParam)
     THEN "high" ELSE "low"]

\* shared/utils.js: volume >= volThresholdForOB
MeetsOBThreshold(d, k, i, swing, j) ==
  MeetsThreshold(K(k, j).volume, k, Max(0, swing.index - volumeLookback), i,
                 d.volumeMethod, d.volumeParam)

\* shared/utils.js: the first candle with the lowest low among those of
\* swing.index..i-1 that meet the threshold; if none does, the last candle with
\* the lowest low
LowestLow(d, k, i, swing) ==
  LET range == swing.index..(i - 1)
      Q == {j \in range : MeetsOBThreshold(d, k, i, swing, j)}
  IN IF Q # {}
     THEN CHOOSE j \in Q : \A q \in Q :
            K(k, j).low < K(k, q).low \/ (K(k, j).low = K(k, q).low /\ j <= q)
     ELSE CHOOSE j \in range : \A q \in range :
            K(k, j).low < K(k, q).low \/ (K(k, j).low = K(k, q).low /\ j >= q)

HighestHigh(d, k, i, swing) ==
  LET range == swing.index..(i - 1)
      Q == {j \in range : MeetsOBThreshold(d, k, i, swing, j)}
  IN IF Q # {}
     THEN CHOOSE j \in Q : \A q \in Q :
            K(k, j).high > K(k, q).high \/ (K(k, j).high = K(k, q).high /\ j <= q)
     ELSE CHOOSE j \in range : \A q \in range :
            K(k, j).high > K(k, q).high \/ (K(k, j).high = K(k, q).high /\ j >= q)

\* shared/utils.js: the OB is the chosen candle itself (its high and low)
SharedOB(d, k, i, type, swing, best) ==
  [type |-> type, high |-> K(k, best).high, low |-> K(k, best).low,
   creationIndex |-> i, close |-> K(k, i).close, volume |-> K(k, best).volume,
   confidence |-> IF MeetsOBThreshold(d, k, i, swing, best) THEN "high" ELSE "low"]

passesATRCheck(d, ob) ==
  d.atr = 0 \/ Abs(ob.high - ob.low) * 10 <= d.atr * maxATRMultiplier10

InitDetect ==
  /\ HistFresh
  /\ InitRuns
  /\ LoggedSoFar
  /\ calc = NoCalc
  /\ overlap = FALSE /\ bounded = TRUE /\ avoidWeekends = TRUE
  /\ scanTimeframes = {entryTimeframe}
  /\ \E c \in DetConfigs, k \in [1..swingLength -> DetCandles] :
       det = [NoDet EXCEPT !.phase = "loop", !.klines = k, !.detector = c.detector,
                           !.volumeMethod = c.volumeMethod,
                           !.volumeParam = c.volumeParam, !.atr = c.atr]

\* one iteration of the main loop, on the candle at index i
DetectIteration ==
  /\ det.phase = "loop" /\ Len(det.klines) < MaxCandles
  /\ \E currentCandle \in DetCandles :
       LET k == Append(det.klines, currentCandle)
           i == Len(det.klines)
           sh == SwingHighAt(k, i, det.lastSwingHigh)
           sl == SwingLowAt(k, i, det.lastSwingLow)
           bull == sh.index >= 0 /\ ~sh.crossed /\ currentCandle.close > sh.high
                     /\ shouldCreateOB(det, k, i)
           bear == sl.index >= 0 /\ ~sl.crossed /\ currentCandle.close < sl.low
                     /\ shouldCreateOB(det, k, i)
           bullOB == IF det.detector = "shared"
                     THEN SharedOB(det, k, i, "BULLISH", sh, LowestLow(det, k, i, sh))
                     ELSE DetectedOB(det, k, i, "BULLISH", sh, LowestBody(k, sh.index, i))
           bearOB == IF det.detector = "shared"
                     THEN SharedOB(det, k, i, "BEARISH", sl, HighestHigh(det, k, i, sl))
                     ELSE DetectedOB(det, k, i, "BEARISH", sl, HighestBody(k, sl.index, i))
       IN det' = [det EXCEPT
                   !.klines = k,
                   !.lastSwingHigh = IF bull THEN Crossed(sh) ELSE sh,
                   !.lastSwingLow = IF bear THEN Crossed(sl) ELSE sl,
                   !.bullishOBs = IF bull /\ passesATRCheck(det, bullOB)
                                  THEN Append(@, bullOB) ELSE @,
                   !.bearishOBs = IF bear /\ passesATRCheck(det, bearOB)
                                  THEN Append(@, bearOB) ELSE @]
  /\ UNCHANGED <<store, exchange, history, pc, loc, started, bounded, overlap,
                 avoidWeekends, calc, scanTimeframes>>

\* return { bullishOBs, bearishOBs }
DetectReturn ==
  /\ det.phase = "loop"
  /\ det' = [NoDet EXCEPT !.phase = "done", !.bullishOBs = det.bullishOBs,
                          !.bearishOBs = det.bearishOBs]
  /\ UNCHANGED <<store, exchange, history, pc, loc, started, bounded, overlap,
                 avoidWeekends, calc, scanTimeframes>>

NextDetect == DetectIteration \/ DetectReturn

SpecDetect == InitDetect /\ [][NextDetect]_vars

\* the iteration index of a step of the detector's loop
IterationIndex == Len(det.klines)

\* C28: whenever the detector records a swing high at r = i - swingLength, the
\* high of candle r is strictly greater than the high of each of the candles
\* r+1..i; a recorded swing low's low is strictly lower than each of their lows.
C28_SwingStrictlyExtreme ==
  [][det.phase = "loop" /\ det'.phase = "loop"
       => LET k == det'.klines
              i == IterationIndex
              r == i - swingLength
          IN /\ det'.lastSwingHigh.index = r
                  => /\ det'.lastSwingHigh.high = K(k, r).high
                     /\ \A j \in (r + 1)..i : K(k, r).high > K(k, j).high
             /\ det'.lastSwingLow.index = r
                  => /\ det'.lastSwingLow.low = K(k, r).low
                     /\ \A j \in (r + 1)..i : K(k, r).low < K(k, j).low]_vars

C28_Witness ==
  /\ det.phase = "loop"
  /\ det.lastSwingHigh.index = Len(det.klines) - 1 - swingLength
  /\ det.lastSwingLow.index >= 0
  /\ det.lastSwingLow.index < det.lastSwingHigh.index

IsSwingHigh(k, r) == \A j \in (r + 1)..(r + swingLength) : K(k, r).high > K(k, j).high
IsSwingLow(k, r) == \A j \in (r + 1)..(r + swingLength) : K(k, r).low < K(k, j).low

\* the swing point an OB created at candle i came from: the latest one that
\* iteration i had recorded (-1: none)
SwingHighOf(k, i) ==
  LET S == {r \in 0..(i - swingLength) : IsSwingHigh(k, r)}
  IN IF S = {} THEN -1 ELSE CHOOSE r \in S : \A q \in S : q <= r

SwingLowOf(k, i) ==
  LET S == {r \in 0..(i - swingLength) : IsSwingLow(k, r)}
  IN IF S = {} THEN -1 ELSE CHOOSE r \in S : \A q \in S : q <= r

\* C29: over any candle series, no two bullish OBs come from one swing high and
\* no two bearish OBs from one swing low: once a swing point is crossed no later
\* candle emits another OB from it.
C29_OneOBPerSwing ==
  det.phase = "loop"
    => /\ \A a, b \in 1..Len(det.bullishOBs) :
            a # b => SwingHighOf(det.klines, det.bullishOBs[a].creationIndex)
                       # SwingHighOf(det.klines, det.bullishOBs[b].creationIndex)
       /\ \A a, b \in 1..Len(det.bearishOBs) :
            a # b => SwingLowOf(det.klines, det.bearishOBs[a].creationIndex)
                       # SwingLowOf(det.klines, det.bearishOBs[b].creationIndex)

\* a second candle has closed above a swing high that was already crossed
C29_Witness ==
  /\ det.phase = "loop"
  /\ Len(det.bullishOBs) = 1
  /\ det.lastSwingHigh.crossed
  /\ det.bullishOBs[1].creationIndex < Len(det.klines) - 1
  /\ K(det.klines, Len(det.klines) - 1).close > det.lastSwingHigh.high
  /\ K(det.klines, Len(det.klines) - 1).volume >= 2

\* the non-zero volumes among the volumeLookback candles before candle i
PrecedingVolumes(k, i) ==
  {j \in 0..(i - 1) : j >= i - volumeLookback /\ K(k, j).volume > 0}

\* a step of the loop that pushes a bullish (bearish) OB
EmitsBullish == det.phase = "loop" /\ det'.phase = "loop"
                  /\ Len(det'.bullishOBs) > Len(det.bullishOBs)
EmitsBearish == det.phase = "loop" /\ det'.phase = "loop"
                  /\ Len(det'.bearishOBs) > Len(det.bearishOBs)

\* C30: a bullish OB is emitted at candle i only if the close of candle i is
\* above the high of the current, uncrossed swing high and the volume of
\* candle i is at least the threshold the selected method gives over the
\* non-zero volumes of the volumeLookback candles before i (any volume passes
\* when there is none); a bearish OB only if the close is below the low of the
\* current uncrossed swing low, with the same volume test.
C30_BreakoutNeedsCloseAndVolume ==
  [][LET k == det'.klines
         i == IterationIndex
         volumeOK ==
           \/ PrecedingVolumes(k, i) = {}
           \/ MeetsThreshold(K(k, i).volume, k, Max(0, i - volumeLookback), i,
                             det.volumeMethod, det.volumeParam)
     IN /\ EmitsBullish
             => /\ SwingHighOf(k, i) >= 0
                /\ K(k, i).close > K(k, SwingHighOf(k, i)).high
                /\ ~(det.lastSwingHigh.index = SwingHighOf(k, i) /\ det.lastSwingHigh.crossed)
                /\ volumeOK
        /\ EmitsBearish
             => /\ SwingLowOf(k, i) >= 0
                /\ K(k, i).close < K(k, SwingLowOf(k, i)).low
                /\ ~(det.lastSwingLow.index = SwingLowOf(k, i) /\ det.lastSwingLow.crossed)
                /\ volumeOK]_vars

\* C31: for every emitted bullish OB with swing index s and breakout index i,
\* the range of the OB is the body, [min(open, close), max(open, close)], of a
\* candle of s..i-1 whose body-low is the smallest of that window; for every
\* emitted bearish OB it is the body of a candle of s..i-1 whose body-high is
\* the largest.
C31_RangeIsExtremeBody ==
  [][LET k == det'.klines
         i == IterationIndex
     IN /\ EmitsBullish
             => LET ob == det'.bullishOBs[Len(det'.bullishOBs)]
                    range == SwingHighOf(k, i)..(i - 1)
                IN \E j \in range :
                     /\ \A q \in range : BodyMin(K(k, j)) <= BodyMin(K(k, q))
                     /\ ob.low = BodyMin(K(k, j))
                     /\ ob.high = BodyMax(K(k, j))
        /\ EmitsBearish
             => LET ob == det'.bearishOBs[Len(det'.bearishOBs)]
                    range == SwingLowOf(k, i)..(i - 1)
                IN \E j \in range :
                     /\ \A q \in range : BodyMax(K(k, j)) >= BodyMax(K(k, q))
                     /\ ob.low = BodyMin(K(k, j))
                     /\ ob.high = BodyMax(K(k, j))]_vars

\* the candle iteration i took the range of a bullish (bearish) OB from
BullishRangeCandle(k, i) ==
  IF det.detector = "shared"
  THEN LowestLow(det, k, i, [index |-> SwingHighOf(k, i)])
  ELSE LowestBody(k, SwingHighOf(k, i), i)

BearishRangeCandle(k, i) ==
  IF det.detector = "shared"
  THEN HighestHigh(det, k, i, [index |-> SwingLowOf(k, i)])
  ELSE HighestBody(k, SwingLowOf(k, i), i)

\* the volume of candle j is at least the threshold of the configured method
\* over the candles from swing point s to the breakout candle i, the breakout
\* candle left out or counted in
MeetsSwingToBreakout(k, j, s, i) ==
  \/ MeetsThreshold(K(k, j).volume, k, s, i, det.volumeMethod, det.volumeParam)
  \/ MeetsThreshold(K(k, j).volume, k, s, i + 1, det.volumeMethod, det.volumeParam)

FailsSwingToBreakout(k, j, s, i) ==
  \/ ~MeetsThreshold(K(k, j).volume, k, s, i, det.volumeMethod, det.volumeParam)
  \/ ~MeetsThreshold(K(k, j).volume, k, s, i + 1, det.volumeMethod, det.volumeParam)

\* C32: the confidence of an emitted OB is "high" exactly when the volume of
\* the candle its range was taken from is at least the volume threshold over
\* the window of candles from the swing point to the breakout candle, and "low"
\* otherwise.
C32_ConfidenceFromSwingWindow ==
  [][LET k == det'.klines
         i == IterationIndex
     IN /\ EmitsBullish
             => LET ob == det'.bullishOBs[Len(det'.bullishOBs)]
                    j == BullishRangeCandle(k, i)
                IN /\ ob.confidence \in {"high", "low"}
                   /\ ob.confidence = "high" => MeetsSwingToBreakout(k, j, SwingHighOf(k, i), i)
                   /\ ob.confidence = "low" => FailsSwingToBreakout(k, j, SwingHighOf(k, i), i)
        /\ EmitsBearish
             => LET ob == det'.bearishOBs[Len(det'.bearishOBs)]
                    j == BearishRangeCandle(k, i)
                IN /\ ob.confidence \in {"high", "low"}
                   /\ ob.confidence = "high" => MeetsSwingToBreakout(k, j, SwingLowOf(k, i), i)
                   /\ ob.confidence = "low" => FailsSwingToBreakout(k, j, SwingLowOf(k, i), i)]_vars

\* C40: every emitted bullish OB lies entirely below its breakout price, OB low
\* <= OB high < close of the confirmation candle, and every emitted bearish OB
\* entirely above it, close of the confirmation candle < OB low <= OB high.
C40_OBBeyondBreakoutPrice ==
  [][/\ EmitsBullish
          => LET ob == det'.bullishOBs[Len(det'.bullishOBs)]
             IN ob.low <= ob.high /\ ob.high < ob.close
     /\ EmitsBearish
          => LET ob == det'.bearishOBs[Len(det'.bearishOBs)]
             IN ob.close < ob.low /\ ob.low <= ob.high]_vars

\* ------------------------------------ the risk amount of successive additions
\* SCALE_DOWN_FACTOR as a fraction, the balance each addition reads, and the
\* number of additions one position takes (MAX_ADDITIONS)
MaxAdditionNumber == 3
ScaleDownFactors == {<<1, 2>>, <<3, 4>>, <<1, 1>>}
RiskBalances == {10, 100, 150, 200, 400}

\* the same without Math.pow(scaleDownFactor, additionNumber)
RiskAmountUnscaled(balance, additionNumber, f) ==
  balance * riskPercentX10 * Pow(f[2], MaxAdditionNumber)

\* riskAmount = balance * (riskPercent / 100) * scaleDownFactor^additionNumber,
\* in units of 1 / (1000 * den^MaxAdditionNumber) for the factor num/den
RiskAmount(balance, additionNumber, f) ==
  balance * riskPercentX10 * Pow(f[1], additionNumber)
    * Pow(f[2], MaxAdditionNumber - additionNumber)

NoRisk == [phase |-> "risk", factor |-> <<1, 2>>, additionCount |-> 0,
           balances |-> <<>>, risks |-> <<>>]

InitRisk ==
  /\ HistFresh
  /\ InitRuns
  /\ LoggedSoFar
  /\ overlap = FALSE /\ bounded = TRUE /\ avoidWeekends = TRUE
  /\ scanTimeframes = {entryTimeframe}
  /\ det = NoDet
  /\ \E f \in ScaleDownFactors : calc = [NoRisk EXCEPT !.factor = f]

\* one addition to the position: the run reads the balance, sizes addition
\* number additionCount + 1 and, once filled, stores additionCount + 1
RiskAddition ==
  /\ calc.phase = "risk" /\ calc.additionCount < MaxAdditionNumber
  /\ \E balance \in RiskBalances :
       LET additionNumber == calc.additionCount + 1
       IN calc' = [calc EXCEPT
                    !.additionCount = additionNumber,
                    !.balances = Append(@, balance),
                    !.risks = Append(@, RiskAmount(balance, additionNumber, calc.factor))]
  /\ UNCHANGED <<store, exchange, history, pc, loc, started, bounded, overlap,
                 avoidWeekends, scanTimeframes, det>>

NextRisk == RiskAddition

SpecRisk == InitRisk /\ [][NextRisk]_vars

ScalesDown == calc.factor[1] > 0 /\ calc.factor[1] < calc.factor[2]

\* C33 as stated: with 0 < scaleDownFactor < 1 the risk amount of addition
\* N + 1 is strictly less than that of addition N, whatever the balance at
\* the time of each addition.
C33_RiskShrinksAnyBalance ==
  calc.phase = "risk" /\ ScalesDown
    => \A n \in 1..(Len(calc.risks) - 1) : calc.risks[n + 1] < calc.risks[n]

\* C33: with 0 < scaleDownFactor < 1 the risk amount of addition N + 1 is
\* strictly less than that of addition N whenever the balance read at
\* addition N + 1 is not larger than the one read at addition N.
C33_RiskShrinksAtSameBalance ==
  calc.phase = "risk" /\ ScalesDown
    => \A n \in 1..(Len(calc.risks) - 1) :
         calc.balances[n + 1] <= calc.balances[n] => calc.risks[n + 1] < calc.risks[n]

\* three additions sized, the third at the balance of the second
C33_Witness ==
  /\ calc.phase = "risk" /\ ScalesDown
  /\ Len(calc.risks) = MaxAdditionNumber
  /\ calc.balances[3] = calc.balances[2]
  /\ calc.balances[2] < calc.balances[1]

\* ----------------------------------------- the wait for a resting limit order
\* Time in seconds. LIMIT_ORDER_WAIT_TIME scaled down, the sleep between two
\* polls and the timeout of the order-status request.
limitOrderWaitTime == 6
pollSleep == 2
queryTimeout == 5
QueryLatencies == {0, 1, queryTimeout}

\* phase: the while test, the status request, the sleep, hl.cancelOrder in the
\* caller, and the run gone on or returned
NoWait == [phase |-> "test", elapsed |-> 0, order |-> "resting", filled |-> FALSE,
           reason |-> "", returnedAt |-> -1]

InitWait ==
  /\ HistFresh
  /\ InitRuns
  /\ LoggedSoFar
  /\ overlap = FALSE /\ bounded = TRUE /\ avoidWeekends = TRUE
  /\ scanTimeframes = {entryTimeframe}
  /\ det = NoDet
  /\ calc = NoWait

WaitUnchanged ==
  UNCHANGED <<store, exchange, history, pc, loc, started, bounded, overlap,
              avoidWeekends, scanTimeframes, det>>

\* while (Date.now() - startTime < timeoutMs), else { filled: false, reason: "timeout" }
WaitTest ==
  /\ calc.phase = "test"
  /\ calc' = IF calc.elapsed < limitOrderWaitTime
             THEN [calc EXCEPT !.phase = "query"]
             ELSE [calc EXCEPT !.phase = "cancel", !.reason = "timeout",
                               !.returnedAt = calc.elapsed]
  /\ WaitUnchanged

\* await hl.getOrderStatus(orderId): the order's status, a status the loop
\* does not know, or a failed request
WaitQuery ==
  /\ calc.phase = "query"
  /\ \E d \in QueryLatencies, reply \in {calc.order, "not_found", "error"} :
       LET t == calc.elapsed + d
       IN calc' = IF reply = "filled"
                  THEN [calc EXCEPT !.elapsed = t, !.phase = "returned", !.filled = TRUE,
                                    !.returnedAt = t]
                  ELSE IF reply \in {"cancelled", "rejected"}
                  THEN [calc EXCEPT !.elapsed = t, !.phase = "cancel", !.reason = reply,
                                    !.returnedAt = t]
                  ELSE [calc EXCEPT !.elapsed = t, !.phase = "sleep"]
  /\ WaitUnchanged

\* await new Promise(r => setTimeout(r, 2000)), in the try and in the catch
WaitSleep ==
  /\ calc.phase = "sleep"
  /\ calc' = [calc EXCEPT !.elapsed = @ + pollSleep, !.phase = "test"]
  /\ WaitUnchanged

\* await hl.cancelOrder(orderId), its result not looked at, then the CANCELLED
\* write and the return
WaitCancel ==
  /\ calc.phase = "cancel"
  /\ \E ok \in BOOLEAN :
       calc' = [calc EXCEPT !.phase = "returned",
                            !.order = IF ok /\ @ = "resting" THEN "cancelled" ELSE @]
  /\ WaitUnchanged

\* the exchange fills, cancels or rejects the resting order
WaitOrderChange ==
  /\ calc.phase \in {"test", "query", "sleep", "cancel"}
  /\ calc.order = "resting"
  /\ \E st \in {"filled", "cancelled", "rejected"} : calc' = [calc EXCEPT !.order = st]
  /\ WaitUnchanged

WaitRun == WaitTest \/ WaitQuery \/ WaitSleep \/ WaitCancel

NextWait == WaitRun \/ WaitOrderChange

\* the run is scheduled until it returns
SpecWait == InitWait /\ [][NextWait]_vars /\ WF_vars(WaitRun)

\* waitForOrderFill returns no later than limitOrderWaitTime plus one poll
\* step (a status request and a sleep) after it starts
WaitReturnsInTime ==
  calc.returnedAt <= limitOrderWaitTime + queryTimeout + pollSleep

\* C34: the limit-order wait always terminates: waitForOrderFill returns
\* filled, cancelled, rejected or timeout no later than limitOrderWaitTime
\* seconds plus one poll step after it starts, even if every status request
\* fails or reports an unknown status, and on any non-filled result the order
\* is cancelled before the run returns.
C34_WaitEndsAndCancels ==
  /\ <>(calc.phase = "returned")
  /\ [](calc.phase = "returned"
          => /\ WaitReturnsInTime
             /\ calc.filled \/ calc.reason \in {"cancelled", "rejected", "timeout"}
             /\ ~calc.filled => calc.order = "cancelled")

\* C35: no Position record is left in status PENDING once the entry run that
\* created it has returned: whatever became of the order, the run has moved the
\* record to OPEN, FAILED or CANCELLED before it ends.
C35_NoPendingLeftBehind ==
  \A i \in PosIds :
     positions[i].status = "PENDING"
       => \E s \in Slots : pc[s] # "idle" /\ loc[s].job = "entry" /\ loc[s].pendingDoc = i

\* C36: whenever a PENDING limit-order Position is marked CANCELLED, its order
\* has no fill on the exchange: a fill between the last status poll and the
\* cancel request, or a cancel request that fails, never leaves a filled
\* order behind a CANCELLED record.
C36_CancelledMeansUnfilled ==
  [][\A s \in Slots :
       pc[s] = "e_cancelled" /\ positions[loc[s].pendingDoc].status = "PENDING"
         /\ positions'[loc[s].pendingDoc].status = "CANCELLED"
       => exOrders[loc[s].orderId].status # "filled"]_vars

\* ------------------------------------------ overlapping additions to a position
\* An entry on OB 1 was filled and recorded before the orders followed here
\* (balance and peak 10000), its stop order is live, and a scan has just
\* stored OB 2 in the position's direction.
HistOpenBefore ==
  LET c == Template("BULLISH", 59000)
      p == OpenedOn(c, 10000, 1, 1)
  IN /\ obs = [o \in ObIds |-> IF o = 1 THEN OBAt(c, TickMinutes, "position_opened")
                              ELSE NewOB(Template("BULLISH", 58000))]
     /\ positions = [i \in PosIds |-> IF i = 1 THEN p ELSE NoPosition]
     /\ peakRec = 10000 /\ cooldownRec = NoRec
     /\ closeSeq = 0
     /\ exSize = Signed(p.side, p.size)
     /\ exOrders = [o \in OrderIds |-> NoOrder]
     /\ exStops = {StopOrder(1, p.side, p.size, p.stopLoss)}
     /\ nStops = 1

InitAdd ==
  /\ HistOpenBefore
  /\ InitRuns
  /\ LoggedSoFar
  /\ calc = NoCalc
  /\ overlap = TRUE
  /\ bounded = TRUE
  /\ avoidWeekends = TRUE
  /\ scanTimeframes = {entryTimeframe}
  /\ det = NoDet

\* the steps of an entry run that finds the position OPEN
AdditionStep(s) ==
  \/ EntryListPositions(s) \/ EntryListOBs(s) \/ EntryMarketData(s)
  \/ GateBalance(s) \/ GateDailyLoss(s) \/ GateLossStreak(s)
  \/ GatePeakRead(s) \/ GatePeakUpdate(s) \/ GateCooldownRead(s)
  \/ CooldownList(s) \/ CooldownUpdate(s) \/ CooldownCreate(s)
  \/ EntryTooSmall(s) \/ EntryPlaceOrder(s)
  \/ EntryWait(s) \/ EntryCancel(s)
  \/ EntryUpdatePosition(s) \/ EntryUpdateOB(s) \/ EntryLog(s)

NextAdd ==
  \/ \E s \in Slots : AdditionStep(s)
  \/ ExchangeFill

\* entry runs that may overlap, and no store failure
SpecAdd == InitAdd /\ [][NextAdd]_vars

\* C37: in every reachable state, also after overlapping entry runs that both
\* add to the same OPEN position, the stored size is the sum of the entry and
\* addition fills and additionCount the number of addition fills: every write
\* of an addition adds its fill to the size the record holds and one to its
\* additionCount, so that no addition is lost or overwritten.
C37_AdditionsAccumulate ==
  [][\A s \in Slots :
       pc[s] = "e_db_pos" /\ pc'[s] = "e_db_ob" /\ loc[s].action = "ADD"
       => LET i == loc[s].existingPosition.id
          IN /\ positions'[i].size = positions[i].size + loc[s].executedSize
             /\ positions'[i].additionCount = positions[i].additionCount + 1]_vars

\* ---------------------------------------- the monitor with the emergency close
NextEmergency ==
  \/ Next
  \/ \E s \in Slots : MonitorEmergency(s)

\* the position of HistOpen with a daily OB of the opposite type above it
HistOpenBelowTarget ==
  LET c == Template("BULLISH", 59000)
      p == OpenedOn(c, 10000, 1, 1)
      target == [type |-> "BEARISH", timeframe |-> "1d", bottom |-> 61500, top |-> 62500,
                 breakoutPrice |-> 61000, confidence |-> "low"]
  IN /\ obs = [o \in ObIds |-> IF o = 1 THEN OBAt(c, TickMinutes, "position_opened")
                              ELSE NewOB(target)]
     /\ positions = [i \in PosIds |-> IF i = 1 THEN p ELSE NoPosition]
     /\ peakRec = 10000 /\ cooldownRec = NoRec
     /\ closeSeq = 0
     /\ exSize = Signed(p.side, p.size)
     /\ exOrders = [o \in OrderIds |->
          IF o = 1 THEN [status |-> "filled", side |-> p.side, size |-> p.size,
                         px |-> p.avgEntryPrice, ob |-> 1]
          ELSE NoOrder]
     /\ exStops = {StopOrder(1, p.side, p.size, p.stopLoss)}
     /\ nStops = 1

InitEmergency ==
  /\ \/ HistFresh \/ HistScanned \/ HistOpen \/ HistAged \/ HistClosedAndOpen
     \/ HistLosses \/ HistLossesToday \/ HistOpenBelowTarget
  /\ InitRuns
  /\ LoggedSoFar
  /\ calc = NoCalc
  /\ overlap = FALSE
  /\ bounded = TRUE
  /\ avoidWeekends = TRUE
  /\ scanTimeframes = {entryTimeframe}
  /\ det = NoDet

\* each invocation finishes before the next starts
SpecEmergency == InitEmergency /\ [][NextEmergency]_vars

MarketCloseReasons == {"HTF_TARGET", "REVERSAL_OB", "EMERGENCY_CLOSE"}

\* C38: a Position is marked CLOSED with a market-close reason (HTF_TARGET,
\* REVERSAL_OB or EMERGENCY_CLOSE) only after hl.closePosition has reported
\* success, i.e. in the run whose close order has just reduced the exchange
\* position; when the close fails the record stays as it is, OPEN, and the run
\* goes on with the remaining checks for it.
C38_ClosedOnlyAfterExchangeClose ==
  [][/\ \A i \in PosIds :
          /\ positions[i].status # "CLOSED" /\ positions'[i].status = "CLOSED"
          /\ positions'[i].exitReason \in MarketCloseReasons
          => \E s \in Slots :
               /\ pc[s] = "m_close_doc" /\ pc'[s] # "m_close_doc"
               /\ PosDoc(loc[s]).id = i
               /\ positions'[i].exitPrice = loc[s].currentPrice
     /\ \A s \in Slots :
       /\ pc[s] # "m_close_doc" /\ pc'[s] = "m_close_doc"
            /\ loc'[s].exitReason \in MarketCloseReasons
            => pc[s] = "m_close" /\ exSize # 0 /\ exSize' # exSize
       /\ pc[s] = "m_close" /\ pc'[s] \notin {"m_close", "m_close_doc"}
            => /\ positions' = positions /\ exSize' = exSize
               /\ pc'[s] \in {"m_reversal", "m_atr", "m_update"}
               /\ loc'[s].idx = loc[s].idx]_vars

\* a position closed by the emergency close, the exchange position gone
C38_Witness ==
  \E i \in PosIds :
     /\ positions[i].status = "CLOSED" /\ positions[i].exitReason = "EMERGENCY_CLOSE"
     /\ exSize = 0

\* C39: an entry run reports the post-fill persistence failure (success false
\* with orderExecuted true, and the emergency alert) only if a store write
\* after the fill actually failed: a run whose order filled and whose Position
\* and OrderBlock writes both succeeded returns success with action
\* position_opened or position_added.
C39_ReportedOnlyIfWriteFailed ==
  postFillReported \subseteq postFillFailed
====
